---------------------------- MODULE Spec2Model ----------------------------
(***************************************************************************)
(* Model of src/integrated_os_simulator.py: the MemoryManager (page        *)
(* residency, LRU replacement), the InstructionGenerator and the           *)
(* IntegratedScheduler (round-robin time slices driving page accesses).    *)
(*                                                                         *)
(* A Python dict keyed by pid is a function over all pids whose entries    *)
(* say whether the key is present; Python sets are sets; lists are         *)
(* sequences.  Iteration order over a Python set is                        *)
(* not specified by the language, so wherever the code depends on it (the  *)
(* LRU tie-break, list(s)[0]) the model keeps every outcome.               *)
(***************************************************************************)
EXTENDS Integers, Sequences, FiniteSets, TLC

VARIABLES
    mm,                          \* the MemoryManager object: total_memory_pages, allocated_pages, access_history, time_counter
    processes,                   \* IntegratedScheduler.processes: the list of PCBs, pid = position - 1
    current_process_index,       \* IntegratedScheduler.current_process_index
    time_quantum,                \* IntegratedScheduler.time_quantum
    instructions_per_time_unit,  \* IntegratedScheduler.instructions_per_time_unit
    current_time,                \* IntegratedScheduler.current_time
    execution_log,               \* IntegratedScheduler.execution_log
    machine,                     \* the sizes the code fixes: instructions per process, address stride, page size
    rng,                         \* the state of Python's global random generator: its seed and the draws made
    ring_scheduler,              \* the ProcessScheduler or StreamlitScheduler object and its PCBs
    simulator,                   \* the IntegratedSimulator object of enhanced_os_ui.py: its memory list and settings
    last_op                      \* history variable: the last call made, its arguments and what it returned

(***************************************************************************)
(* Bounds of the model.                                                    *)
(***************************************************************************)
\* direct memory-manager calls stop once time_counter reaches this value
MaxAccesses == 5

\* arguments tried for direct MemoryManager calls; pid 1 touches one page only
MM_Frames == {3}
MM_Pids == {0, 1}
MM_Pages == 0..3
MM_PagesOf(pid) == IF pid = 0 THEN MM_Pages ELSE {0}
MM_Limits == {0, 3}
MM_Counts == {2}

\* the scheduler is given at most this many processes
MaxProcs == 3

\* The code fixes 320 instructions per process, bases 100 apart and pages
\* of 10 addresses.  Runs of the general specification use a machine of
\* the same shape scaled down, so that a process can run out of
\* instructions within a few time units.
SmallTotal == 4
SmallStride == 2
SmallPage == 1

\* sizes fixed by the code
TOTAL_INSTRUCTIONS == 320
BASE_STRIDE == 100
PAGE_SIZE == 10
PROCESS_MEMORY_LIMIT == 8
INITIAL_PAGES_CAP == 4

CodeMachine == [total_instructions |-> TOTAL_INSTRUCTIONS, base_stride |-> BASE_STRIDE,
                page_size |-> PAGE_SIZE]

SmallMachine == [total_instructions |-> SmallTotal, base_stride |-> SmallStride,
                 page_size |-> SmallPage]

\* values tried for the arguments of add_process and for the settings
RequiredTimes == {1, 3}
MemoryLimits == {2, 8}
Frames == {4, 6}
Settings == { [time_quantum |-> 1, instructions_per_time_unit |-> 1],
              [time_quantum |-> 2, instructions_per_time_unit |-> 2] }
Seeds == { [mul |-> 3, add |-> 2] }
ScenarioSeeds == { [mul |-> 7, add |-> 3], [mul |-> 13, add |-> 5], [mul |-> 29, add |-> 11] }

(***************************************************************************)
(* Python dicts keyed by pid.  A dict is a function over every pid the     *)
(* model uses; an entry says whether the key is present and, if so, its    *)
(* value.                                                                  *)
(***************************************************************************)
PidUniverse == (0..(MaxProcs - 1)) \cup MM_Pids

Absent(default) == [has |-> FALSE, v |-> default]

EmptyDict(default) == [k \in PidUniverse |-> Absent(default)]

\* the keys of d
DictKeys(d) == { k \in DOMAIN d : d[k].has }

\* d[k] = v
DictPut(d, k, v) == [d EXCEPT ![k] = [has |-> TRUE, v |-> v]]

\* del d[k]
DictDel(d, k, default) == [d EXCEPT ![k] = Absent(default)]

\* d.get(k, default)
DictGet(d, k, default) == IF d[k].has THEN d[k].v ELSE default

\* if k not in d: d[k] = default
DictEnsure(d, k, default) == IF d[k].has THEN d ELSE DictPut(d, k, default)

RECURSIVE SumOver(_, _)
SumOver(S, f) == IF S = {} THEN 0
                 ELSE LET x == CHOOSE y \in S : TRUE
                      IN f[x] + SumOver(S \ {x}, f)

(***************************************************************************)
(* MemoryManager                                                           *)
(***************************************************************************)
\* MemoryManager.__init__
NewMemoryManager(total) ==
    [ total_memory_pages |-> total,
      allocated_pages    |-> EmptyDict({}),
      page_replacement_algorithm |-> "LRU",
      access_history     |-> EmptyDict(<< >>),
      time_counter       |-> 0 ]

\* self.allocated_pages[process_id], for a key that is present
pages_of(m, process_id) == m.allocated_pages[process_id].v

\* self.access_history[process_id], for a key that is present
history_of(m, process_id) == m.access_history[process_id].v

\* get_all_allocated_pages: the UNION of the per-process sets, so a page
\* number held by two processes is counted once
get_all_allocated_pages(m) ==
    UNION { pages_of(m, p) : p \in DictKeys(m.allocated_pages) }

\* allocate_initial_pages: returns the new manager and the boolean result
allocate_initial_pages(m, process_id, required_pages) ==
    IF Cardinality(get_all_allocated_pages(m)) + required_pages > m.total_memory_pages
    THEN [mm |-> m, ok |-> FALSE]
    ELSE LET ap1 == DictEnsure(m.allocated_pages, process_id, {})
             start_page == Cardinality(get_all_allocated_pages(m))
             new_pages == { start_page + i : i \in 0..(required_pages - 1) }
         IN [ mm |-> [m EXCEPT !.allocated_pages =
                                  DictPut(ap1, process_id, ap1[process_id].v \cup new_pages)],
              ok |-> TRUE ]

\* page_last_access of _select_victim_page: the time of the last history
\* entry of the page, 0 for a page that has no entry
page_last_access(history, page) ==
    LET idx == { i \in 1..Len(history) : history[i][1] = page }
    IN IF idx = {} THEN 0
       ELSE history[CHOOSE i \in idx : \A j \in idx : j <= i][2]

\* a victim choice that takes the most recently used page
select_victim_most_recent(m, process_id) ==
    LET resident == pages_of(m, process_id)
        history == DictGet(m.access_history, process_id, << >>)
    IN { p \in resident :
           \A q \in resident :
               page_last_access(history, p) >= page_last_access(history, q) }

\* _select_victim_page: the set of pages the call may return.  Without
\* history it returns list(set)[0], any resident page; otherwise the first
\* page in iteration order whose last access is strictly smaller than all
\* before it, which is some page of minimal last access.
select_victim_page(m, process_id) ==
    LET resident == pages_of(m, process_id)
        history == DictGet(m.access_history, process_id, << >>)
    IN IF ~m.access_history[process_id].has \/ history = << >>
       THEN resident
       ELSE { p \in resident :
                \A q \in resident :
                    page_last_access(history, p) <= page_last_access(history, q) }

\* a miss branch that gives a process without pages no page
evict_or_deny(m1, process_id, page) ==
    LET current_process_pages == Cardinality(pages_of(m1, process_id))
    IN IF current_process_pages > 0
       THEN { [ mm |-> [m1 EXCEPT !.allocated_pages[process_id].v = (@ \ {v}) \cup {page}],
                evicted |-> {v} ] : v \in select_victim_page(m1, process_id) }
       ELSE { [mm |-> m1, evicted |-> {}] }

\* the miss branch of access_page once the headroom test has failed:
\* m1 is the manager after the bookkeeping at the head of access_page
evict_and_insert(m1, process_id, page) ==
    LET current_process_pages == Cardinality(pages_of(m1, process_id))
    IN IF current_process_pages > 0
       THEN { [ mm |-> [m1 EXCEPT !.allocated_pages[process_id].v = (@ \ {v}) \cup {page}],
                evicted |-> {v} ] : v \in select_victim_page(m1, process_id) }
       ELSE { [ mm |-> [m1 EXCEPT !.allocated_pages[process_id].v = @ \cup {page}],
                evicted |-> {} ] }

\* a headroom test that never finds room
can_allocate_new_never(m1, process_id, process_memory_limit) == FALSE

\* the headroom test of access_page
can_allocate_new(m1, process_id, process_memory_limit) ==
    /\ Cardinality(pages_of(m1, process_id)) < process_memory_limit
    /\ Cardinality(get_all_allocated_pages(m1)) < m1.total_memory_pages

\* an access that treats a resident page as a miss too
access_page_always_miss(m, process_id, page, process_memory_limit) ==
    LET tc == m.time_counter + 1
        m1 == [m EXCEPT !.time_counter = tc,
                        !.allocated_pages = DictEnsure(@, process_id, {}),
                        !.access_history = DictEnsure(@, process_id, << >>)]
        record(x) == [x EXCEPT !.access_history[process_id].v = Append(@, <<page, tc>>)]
    IN { [mm |-> record(o.mm), fault |-> TRUE, evicted |-> o.evicted] :
           o \in evict_and_insert(m1, process_id, page) }

\* an access that does not advance the logical time
access_page_no_tick(m, process_id, page, process_memory_limit) ==
    LET tc == m.time_counter
        m1 == [m EXCEPT !.allocated_pages = DictEnsure(@, process_id, {}),
                        !.access_history = DictEnsure(@, process_id, << >>)]
        record(x) == [x EXCEPT !.access_history[process_id].v = Append(@, <<page, tc>>)]
    IN IF page \in pages_of(m1, process_id)
       THEN { [mm |-> record(m1), fault |-> FALSE, evicted |-> {}] }
       ELSE IF can_allocate_new(m1, process_id, process_memory_limit)
            THEN { [ mm |-> record([m1 EXCEPT !.allocated_pages[process_id].v = @ \cup {page}]),
                     fault |-> TRUE, evicted |-> {} ] }
            ELSE { [mm |-> record(o.mm), fault |-> TRUE, evicted |-> o.evicted] :
                     o \in evict_and_insert(m1, process_id, page) }

\* access_page: the set of outcomes [mm, fault, evicted] of one call
access_page(m, process_id, page, process_memory_limit) ==
    LET tc == m.time_counter + 1
        m1 == [m EXCEPT !.time_counter = tc,
                        !.allocated_pages = DictEnsure(@, process_id, {}),
                        !.access_history = DictEnsure(@, process_id, << >>)]
        record(x) == [x EXCEPT !.access_history[process_id].v = Append(@, <<page, tc>>)]
    IN IF page \in pages_of(m1, process_id)
       THEN { [mm |-> record(m1), fault |-> FALSE, evicted |-> {}] }
       ELSE IF can_allocate_new(m1, process_id, process_memory_limit)
            THEN { [ mm |-> record([m1 EXCEPT !.allocated_pages[process_id].v = @ \cup {page}]),
                     fault |-> TRUE, evicted |-> {} ] }
            ELSE { [mm |-> record(o.mm), fault |-> TRUE, evicted |-> o.evicted] :
                     o \in evict_and_insert(m1, process_id, page) }

\* a release that forgets the pages but keeps the access history
deallocate_keep_history(m, process_id) ==
    [m EXCEPT !.allocated_pages = DictDel(@, process_id, {})]

\* a termination that keeps the process's pages
deallocate_nothing(m, process_id) == m

\* deallocate_process_pages
deallocate_process_pages(m, process_id) ==
    [m EXCEPT !.allocated_pages = DictDel(@, process_id, {}),
              !.access_history = DictDel(@, process_id, << >>)]

(***************************************************************************)
(* InstructionGenerator                                                    *)
(***************************************************************************)
\* random.randint(a, b) on the draw r of the random stream
randint(a, b, r) == a + (r % (b - a + 1))

\* the k-th draw (k = 0, 1, ...) of the random stream a seed produces
Rand(seed, k) == seed.add + seed.mul * k

Min2(a, b) == IF a <= b THEN a ELSE b

\* one pass of the while loop of generate_process_instructions: from the
\* list so far and the number of draws made, the list and the draws after
GenRound(ins, k, seed, base_address, max_address, total) ==
    LET m    == randint(base_address, max_address, Rand(seed, k))
        ins1 == Append(ins, m)
        ins2 == IF m + 1 <= max_address THEN Append(ins1, m + 1) ELSE ins1
        m1   == randint(base_address, Min2(m + 1, max_address), Rand(seed, k + 1))
        ins3 == Append(ins2, m1)
        ins4 == IF m1 + 1 <= max_address THEN Append(ins3, m1 + 1) ELSE ins3
        m2   == randint(m1 + 2, max_address, Rand(seed, k + 2))
    IN IF Len(ins1) >= total THEN [ins |-> ins1, draws |-> k + 1]
       ELSE IF Len(ins2) >= total THEN [ins |-> ins2, draws |-> k + 1]
       ELSE IF Len(ins3) >= total THEN [ins |-> ins3, draws |-> k + 2]
       ELSE IF Len(ins4) >= total THEN [ins |-> ins4, draws |-> k + 2]
       ELSE IF m1 + 2 <= max_address THEN [ins |-> Append(ins4, m2), draws |-> k + 3]
       ELSE [ins |-> ins4, draws |-> k + 2]

RECURSIVE GenLoop(_, _, _, _, _, _)
GenLoop(ins, k, seed, base_address, max_address, total) ==
    IF Len(ins) >= total THEN [ins |-> ins, draws |-> k]
    ELSE LET r == GenRound(ins, k, seed, base_address, max_address, total)
         IN GenLoop(r.ins, r.draws, seed, base_address, max_address, total)

\* generate_process_instructions(process_id, total_instructions) with the
\* random generator in state g: the list returned and the generator after
generate_process_instructions(process_id, total_instructions, g, stride) ==
    LET base_address == process_id * stride
        max_address  == base_address + total_instructions - 1
        r == GenLoop(<< >>, g.draws, g.seed, base_address, max_address, total_instructions)
    IN [ instructions |-> SubSeq(r.ins, 1, total_instructions),
         rng |-> [g EXCEPT !.draws = r.draws] ]

(***************************************************************************)
(* IntegratedScheduler                                                     *)
(***************************************************************************)
\* the PCB add_process builds; memory_limit and admitted_at are history
\* fields (the argument given and current_time at admission), the rest are
\* the dataclass's fields
NewPCB(pid, required_time, memory_limit, instructions, total, now) ==
    [ pid |-> pid,
      required_time |-> required_time,
      executed_time |-> 0,
      state |-> "READY",
      instruction_sequence |-> instructions,
      current_instruction_index |-> 0,
      total_instructions |-> total,
      allocated_pages |-> {},
      page_faults |-> 0,
      memory_limit |-> memory_limit,
      admitted_at |-> now ]

\* the pages add_process asks allocate_initial_pages for
initial_page_request(memory_limit) == Min2(memory_limit, INITIAL_PAGES_CAP)

\* the limit execute_instructions passes to access_page
process_memory_limit_used(process) == PROCESS_MEMORY_LIMIT

EmptyInfo == [executed_instructions |-> 0, page_faults |-> 0, accessed_pages |-> << >>]

\* an execution that counts a fault in the PCB and not in execution_info
RECURSIVE execute_faults_unreported(_, _, _)
execute_faults_unreported(st, instruction_count, page_size) ==
    IF instruction_count <= 0
       \/ st.process.current_instruction_index >= Len(st.process.instruction_sequence)
    THEN {st}
    ELSE LET p == st.process
             instruction_addr == p.instruction_sequence[p.current_instruction_index + 1]
             page_num == instruction_addr \div page_size
             step(o) ==
               [ mm |-> o.mm,
                 process |-> [p EXCEPT !.page_faults = IF o.fault THEN @ + 1 ELSE @,
                                       !.current_instruction_index = @ + 1],
                 info |-> [st.info EXCEPT
                             !.executed_instructions = @ + 1,
                             !.accessed_pages = Append(@, page_num)] ]
         IN UNION { execute_faults_unreported(step(o), instruction_count - 1, page_size) :
                      o \in access_page(st.mm, p.pid, page_num, process_memory_limit_used(p)) }

\* a time unit in which no instruction is executed
execute_no_instruction(st, instruction_count, page_size) == {st}

\* execute_instructions: st = [mm, process, info]; the set of states after
\* at most instruction_count instructions
RECURSIVE execute_instructions(_, _, _)
execute_instructions(st, instruction_count, page_size) ==
    IF instruction_count <= 0
       \/ st.process.current_instruction_index >= Len(st.process.instruction_sequence)
    THEN {st}
    ELSE LET p == st.process
             instruction_addr == p.instruction_sequence[p.current_instruction_index + 1]
             page_num == instruction_addr \div page_size
             step(o) ==
               [ mm |-> o.mm,
                 process |-> [p EXCEPT !.page_faults = IF o.fault THEN @ + 1 ELSE @,
                                       !.current_instruction_index = @ + 1],
                 info |-> [st.info EXCEPT
                             !.executed_instructions = @ + 1,
                             !.page_faults = IF o.fault THEN @ + 1 ELSE @,
                             !.accessed_pages = Append(@, page_num)] ]
         IN UNION { execute_instructions(step(o), instruction_count - 1, page_size) :
                      o \in access_page(st.mm, p.pid, page_num, process_memory_limit_used(p)) }

instructions_completed(p) == p.current_instruction_index >= Len(p.instruction_sequence)

\* a time test that lets a process run one unit past its quota
time_completed_late(p) == p.executed_time > p.required_time

time_completed(p) == p.executed_time >= p.required_time

\* a loop that always runs the whole quantum
slice_break_never(p) == FALSE

\* a loop that goes on after the last instruction
slice_break_time_only(p) == time_completed(p)

\* the test that ends the time-unit loop of run_time_slice early
slice_break(p) == instructions_completed(p) \/ time_completed(p)

\* the AND reading of the termination test
process_finished_both(p) == instructions_completed(p) /\ time_completed(p)

\* the test that decides the process's state after the slice
process_finished(p) == instructions_completed(p) \/ time_completed(p)

\* the time-unit loop of run_time_slice: the set of states after at most
\* units time units
RECURSIVE time_unit_loop(_, _, _, _)
time_unit_loop(st, units, per_unit, page_size) ==
    IF units <= 0 THEN {st}
    ELSE UNION { LET s2 == [s1 EXCEPT !.process.executed_time = @ + 1]
                 IN IF slice_break(s2.process) THEN {s2}
                    ELSE time_unit_loop(s2, units - 1, per_unit, page_size)
               : s1 \in execute_instructions(st, per_unit, page_size) }

\* schedule_next_process: scan from idx, at most len(processes) positions
RECURSIVE scan_ready(_, _, _)
scan_ready(procs, idx, attempts) ==
    IF attempts >= Len(procs) THEN [found |-> FALSE, index |-> idx]
    ELSE IF procs[idx + 1].state = "READY" THEN [found |-> TRUE, index |-> idx]
    ELSE scan_ready(procs, (idx + 1) % Len(procs), attempts + 1)

\* a scheduler that takes the PCB under the pointer whatever its state
schedule_any(procs, idx) == [found |-> procs # << >>, index |-> idx]

\* a scheduler that never finds a process
schedule_none(procs, idx) == [found |-> FALSE, index |-> idx]

schedule_next_process(procs, idx) ==
    IF procs = << >> THEN [found |-> FALSE, index |-> idx]
    ELSE scan_ready(procs, idx, 0)

\* a pointer left on the process that just ran
next_index_stay(index, n) == index % n

\* a pointer moved two positions on
next_index_skip(index, n) == (index + 2) % n

\* the pointer after a slice that ran the process at position index
next_index(index, n) == (index + 1) % n

\* a step counter that skips a value
next_time_skip(t) == t + 2

\* the step counter after a successful slice
next_time(t) == t + 1

\* add_process(name, required_time, memory_limit); the name plays no part
add_process(required_time, memory_limit) ==
    LET pid == Len(processes)
        gen == generate_process_instructions(pid, machine.total_instructions,
                                             rng, machine.base_stride)
        alloc == allocate_initial_pages(mm, pid, initial_page_request(memory_limit))
        process == NewPCB(pid, required_time, memory_limit, gen.instructions,
                          machine.total_instructions, current_time)
    IN /\ processes' = Append(processes, process)
       /\ rng' = gen.rng
       /\ mm' = alloc.mm
       /\ last_op' = [op |-> "add_process", pid |-> pid, ok |-> alloc.ok]
       /\ UNCHANGED <<current_process_index, time_quantum, instructions_per_time_unit,
                      current_time, execution_log, machine, ring_scheduler, simulator>>

AddProcess ==
    /\ Len(processes) < MaxProcs
    /\ \E required_time \in RequiredTimes, memory_limit \in MemoryLimits :
         add_process(required_time, memory_limit)

\* run_time_slice when schedule_next_process finds no Ready process
RunTimeSliceNoReady ==
    /\ ~schedule_next_process(processes, current_process_index).found
    /\ current_process_index' = schedule_next_process(processes, current_process_index).index
    /\ last_op' = [op |-> "run_time_slice", status |-> "no_ready_process"]
    /\ UNCHANGED <<mm, processes, time_quantum, instructions_per_time_unit, current_time,
                   execution_log, machine, rng, ring_scheduler, simulator>>

\* run_time_slice when a Ready process is found
RunTimeSliceRun ==
    LET sel == schedule_next_process(processes, current_process_index)
    IN /\ sel.found
       /\ LET running == [processes[sel.index + 1] EXCEPT !.state = "RUNNING"]
          IN \E st \in time_unit_loop([mm |-> mm, process |-> running, info |-> EmptyInfo],
                                      time_quantum, instructions_per_time_unit,
                                      machine.page_size) :
               LET finished == process_finished(st.process)
                   p_after == [st.process EXCEPT
                                 !.state = IF finished THEN "TERMINATED" ELSE "READY"]
                   mm_after == IF finished
                               THEN deallocate_process_pages(st.mm, p_after.pid)
                               ELSE st.mm
                   log_entry ==
                     [ time |-> current_time,
                       pid |-> p_after.pid,
                       executed_time |-> p_after.executed_time,
                       required_time |-> p_after.required_time,
                       state |-> p_after.state,
                       execution_info |-> st.info,
                       memory_pages |-> DictGet(mm_after.allocated_pages, p_after.pid, {}),
                       time_quantum_used |-> time_quantum ]
               IN /\ processes' = [processes EXCEPT ![sel.index + 1] = p_after]
                  /\ mm' = mm_after
                  /\ execution_log' = Append(execution_log, log_entry)
                  /\ current_process_index' = next_index(sel.index, Len(processes))
                  /\ current_time' = next_time(current_time)
                  /\ last_op' = [op |-> "run_time_slice", status |-> "ok", pid |-> p_after.pid,
                                 deallocated |-> IF finished THEN {p_after.pid} ELSE {}]
       /\ UNCHANGED <<time_quantum, instructions_per_time_unit, machine, rng, ring_scheduler, simulator>>

RunTimeSlice == RunTimeSliceNoReady \/ RunTimeSliceRun

(***************************************************************************)
(* Direct calls of the memory manager's public methods.                    *)
(***************************************************************************)
NoOp == [op |-> "init"]

(***************************************************************************)
(* The linked-ring schedulers of processor_scheduling.py and               *)
(* streamlit_scheduler.py.  A PCB object is known by the number in its     *)
(* name (Q1..Q5); None is 0.  pcb[i].made says that the object exists.     *)
(***************************************************************************)
RING_PROCS == 5
RING_MAX_TIME == 8
MaxRequire == 2
MaxForm == 3
None == 0
RingNames == 1..(IF MaxForm > RING_PROCS THEN MaxForm ELSE RING_PROCS)
RingTimes == (0 - 1)..MaxRequire
RingKinds == {"ProcessScheduler", "StreamlitScheduler"}

\* PCB.__init__
NewRingPCB(require_time) ==
    [made |-> TRUE, next |-> None, require_time |-> require_time, run_time |-> 0,
     status |-> "R", last_run_round |-> 0]

NoRingPCB ==
    [made |-> FALSE, next |-> None, require_time |-> 0, run_time |-> 0,
     status |-> "E", last_run_round |-> 0]

\* ProcessScheduler.__init__, StreamlitScheduler.__init__
NewRingScheduler(kind) ==
    [kind |-> kind, current |-> None, process_count |-> 0, round_count |-> 0,
     execution_log |-> << >>, pcb |-> [i \in RingNames |-> NoRingPCB]]

\* processes[(i + 1) % len(processes)] for the process named i
ring_successor(names, i) ==
    IF \E j \in names : j > i
    THEN CHOOSE j \in names : j > i /\ \A k \in names : k > i => j <= k
    ELSE CHOOSE j \in names : \A k \in names : j <= k

\* the PCBs of the names, each linked to the next and the last to the first
link_ring(names, times) ==
    [i \in RingNames |->
       IF i \in names
       THEN [NewRingPCB(times[i]) EXCEPT !.next = ring_successor(names, i)]
       ELSE NoRingPCB]

\* the least name of a non-empty set: processes[0]
first_name(names) == CHOOSE j \in names : \A k \in names : j <= k

\* ProcessScheduler.create_processes, with the five times drawn
create_processes_random(s, times) ==
    [s EXCEPT !.pcb = link_ring(1..RING_PROCS, times),
              !.current = first_name(1..RING_PROCS),
              !.process_count = RING_PROCS]

\* a creation that counts the times given, those of 0 too
create_processes_miscounted(s, process_times) ==
    LET names == { i \in 1..Len(process_times) : process_times[i] > 0 }
    IN IF names = {} THEN s
       ELSE [s EXCEPT !.pcb = link_ring(names, process_times),
                      !.current = first_name(names),
                      !.process_count = Len(process_times),
                      !.round_count = 0,
                      !.execution_log = << >>]

\* StreamlitScheduler.create_processes
create_processes(s, process_times) ==
    LET names == { i \in 1..Len(process_times) : process_times[i] > 0 }
    IN IF names = {} THEN s
       ELSE [s EXCEPT !.pcb = link_ring(names, process_times),
                      !.current = first_name(names),
                      !.process_count = Cardinality(names),
                      !.round_count = 0,
                      !.execution_log = << >>]

\* prev = current_process; while prev.next != current_process: prev = prev.next
RECURSIVE find_prev(_, _, _)
find_prev(pcb, prev, current_process) ==
    IF pcb[prev].next = current_process THEN prev
    ELSE find_prev(pcb, pcb[prev].next, current_process)

unlink_nothing(pcb, current_process) == pcb

\* prev.next = current_process.next
unlink(pcb, current_process) ==
    [pcb EXCEPT ![find_prev(pcb, current_process, current_process)].next =
                    pcb[current_process].next]

ring_completed_early(p) == p.run_time + 1 >= p.require_time

\* current_process.run_time >= current_process.require_time
ring_completed(p) == p.run_time >= p.require_time

\* the body both schedulers share: run the current PCB for one slice, and
\* either take it out of the ring or move on to the next
ring_step(s) ==
    LET c    == s.current
        pcb1 == [s.pcb EXCEPT ![c].run_time = @ + 1]
    IN IF ring_completed(pcb1[c])
       THEN LET pcb2 == [pcb1 EXCEPT ![c].status = "E"]
            IN IF s.process_count = 1
               THEN [s EXCEPT !.pcb = pcb2, !.current = None, !.process_count = 0]
               ELSE [s EXCEPT !.pcb = unlink(pcb2, c),
                              !.current = pcb2[c].next,
                              !.process_count = @ - 1]
       ELSE [s EXCEPT !.pcb = pcb1, !.current = pcb1[c].next]

\* ProcessScheduler.run_process: the scheduler after the call and what it returns
run_process(s) ==
    IF s.current = None \/ s.process_count = 0
    THEN [scheduler |-> s, returned |-> FALSE]
    ELSE [scheduler |-> ring_step(s), returned |-> TRUE]

\* StreamlitScheduler.run_one_step
run_one_step(s) ==
    IF s.current = None \/ s.process_count = 0
    THEN [scheduler |-> s, returned |-> FALSE]
    ELSE LET c  == s.current
             s1 == [s EXCEPT !.round_count = @ + 1]
             s2 == ring_step([s1 EXCEPT !.pcb[c].last_run_round = s1.round_count])
             completed == s2.pcb[c].status = "E"
             log_entry ==
                 [round |-> s1.round_count, selected_process |-> c, process_name |-> c,
                  require_time |-> s.pcb[c].require_time,
                  run_time_before |-> s.pcb[c].run_time,
                  run_time |-> s.pcb[c].run_time + 1,
                  status |-> IF completed THEN "E" ELSE s.pcb[c].status,
                  action |-> IF completed THEN "done" ELSE "run"]
         IN [scheduler |-> [s2 EXCEPT !.execution_log = Append(@, log_entry)],
             returned |-> TRUE]

\* StreamlitScheduler.reset.  The PCBs were referenced from current only:
\* with current = None no object of the program refers to them any more.
ring_reset(s) ==
    [s EXCEPT !.current = None, !.process_count = 0, !.round_count = 0,
              !.execution_log = << >>,
              !.pcb = [i \in RingNames |-> NoRingPCB]]

(***************************************************************************)
(* The IntegratedSimulator of enhanced_os_ui.py, as far as its memory      *)
(* goes: the list _current_memory, memory_size and algorithm.              *)
(***************************************************************************)
SimMemorySize == 2
MaxSimAccesses == 5
SimPages == 0..(SimMemorySize + 1)
SimAlgorithms == {"FIFO", "LRU", "OPT"}

\* IntegratedSimulator.__init__; _current_memory is made by the first call
\* of _get_current_memory_state
NewSimulator == [memory_size |-> 8, algorithm |-> "LRU", current_memory |-> << >>]

\* current_memory.pop(0)
pop_first(seq) == SubSeq(seq, 2, Len(seq))

\* _simulate_memory_access: the simulator after the call, is_fault and the
\* pages removed
simulate_memory_access(s, page) ==
    LET current_memory == s.current_memory
    IN IF \E k \in 1..Len(current_memory) : current_memory[k] = page
       THEN [simulator |-> s, is_fault |-> FALSE, removed |-> {}]
       ELSE IF Len(current_memory) < s.memory_size
            THEN [simulator |-> [s EXCEPT !.current_memory = Append(@, page)],
                  is_fault |-> TRUE, removed |-> {}]
            ELSE IF s.algorithm \in {"LRU", "FIFO"}
                 THEN [simulator |->
                         [s EXCEPT !.current_memory = Append(pop_first(@), page)],
                       is_fault |-> TRUE, removed |-> {current_memory[1]}]
                 ELSE [simulator |-> [s EXCEPT !.current_memory = Append(@, page)],
                       is_fault |-> TRUE, removed |-> {}]

sched_vars == <<processes, current_process_index, time_quantum, instructions_per_time_unit,
                current_time, execution_log, machine, rng, ring_scheduler, simulator>>

\* IntegratedScheduler.__init__, with the sizes and the seed of the run
NewScheduler(m, seed) ==
    /\ processes = << >>
    /\ current_process_index = 0
    /\ time_quantum = 2
    /\ instructions_per_time_unit = 5
    /\ current_time = 0
    /\ execution_log = << >>
    /\ machine = m
    /\ rng = [seed |-> seed, draws |-> 0]
    /\ ring_scheduler = NewRingScheduler("ProcessScheduler")
    /\ simulator = NewSimulator

MM_Init ==
    /\ mm \in { NewMemoryManager(t) : t \in MM_Frames }
    /\ NewScheduler(CodeMachine, [mul |-> 0, add |-> 0])
    /\ last_op = NoOp

MM_AllocateInitial ==
    \E pid \in MM_Pids, n \in MM_Counts :
        LET r == allocate_initial_pages(mm, pid, n)
        IN /\ mm' = r.mm
           /\ last_op' = [op |-> "allocate_initial_pages", pid |-> pid, count |-> n,
                          ok |-> r.ok]
           /\ UNCHANGED sched_vars

MM_Access ==
    /\ mm.time_counter < MaxAccesses
    /\ \E pid \in MM_Pids, limit \in MM_Limits :
         \E page \in MM_PagesOf(pid) : \E o \in access_page(mm, pid, page, limit) :
            /\ mm' = o.mm
            /\ last_op' = [op |-> "access_page", pid |-> pid, page |-> page, limit |-> limit,
                           fault |-> o.fault, evicted |-> o.evicted]
            /\ UNCHANGED sched_vars

MM_Deallocate ==
    \E pid \in MM_Pids :
        /\ mm' = deallocate_process_pages(mm, pid)
        /\ last_op' = [op |-> "deallocate_process_pages", pid |-> pid]
        /\ UNCHANGED sched_vars

MM_Next == MM_AllocateInitial \/ MM_Access \/ MM_Deallocate

vars == <<mm, processes, current_process_index, time_quantum, instructions_per_time_unit,
          current_time, execution_log, machine, rng, ring_scheduler, simulator, last_op>>

SpecMM == MM_Init /\ [][MM_Next]_vars

(***************************************************************************)
(* The simulator as the dashboard drives it: the sliders' values are set   *)
(* on a fresh scheduler, processes are admitted, slices are run.           *)
(***************************************************************************)
Init ==
    /\ mm \in { NewMemoryManager(t) : t \in Frames }
    /\ \E seed \in Seeds : NewScheduler(SmallMachine, seed)
    /\ last_op = NoOp

\* scheduler.time_quantum = ..., scheduler.instructions_per_time_unit = ...
\* as set once, before any process is admitted
Configure ==
    /\ last_op = NoOp
    /\ \E c \in Settings :
         /\ time_quantum' = c.time_quantum
         /\ instructions_per_time_unit' = c.instructions_per_time_unit
    /\ last_op' = [op |-> "configure"]
    /\ UNCHANGED <<mm, processes, current_process_index, current_time, execution_log,
                   machine, rng, ring_scheduler, simulator>>

Next == Configure \/ AddProcess \/ RunTimeSlice

Spec == Init /\ [][Next]_vars


\* run_time_slice finds a process to run exactly when some PCB is Ready
SliceEnabled == \E i \in 1..Len(processes) : processes[i].state = "READY"

\* run_simulation calls run_time_slice for as long as a process is not
\* Terminated, so a slice that can run is eventually run: weak fairness of
\* RunTimeSliceRun, written out with SliceEnabled for ENABLED RunTimeSliceRun
SliceFairness == ([]<>(~SliceEnabled)) \/ ([]<><<RunTimeSliceRun>>_vars)

FairSpec == Spec /\ SliceFairness

(***************************************************************************)
(* The scenario of the specification's section 8: frameLimit 8, quantum 1, *)
(* 5 instructions per time unit, three processes of required_time 4, 2, 3  *)
(* and memory_limit 4, admitted in that order and then run.                *)
(***************************************************************************)
Scenario ==
    [ required_time |-> <<4, 2, 3>>, memory_limit |-> 4, total_memory_pages |-> 8,
      time_quantum |-> 1, instructions_per_time_unit |-> 5 ]

ScenarioInit ==
    /\ mm = NewMemoryManager(Scenario.total_memory_pages)
    /\ \E seed \in ScenarioSeeds :
         /\ processes = << >>
         /\ current_process_index = 0
         /\ time_quantum = Scenario.time_quantum
         /\ instructions_per_time_unit = Scenario.instructions_per_time_unit
         /\ current_time = 0
         /\ execution_log = << >>
         /\ machine = CodeMachine
         /\ rng = [seed |-> seed, draws |-> 0]
         /\ ring_scheduler = NewRingScheduler("ProcessScheduler")
    /\ simulator = NewSimulator
    /\ last_op = NoOp

ScenarioAdmit ==
    /\ Len(processes) < Len(Scenario.required_time)
    /\ add_process(Scenario.required_time[Len(processes) + 1], Scenario.memory_limit)

ScenarioRun ==
    /\ Len(processes) = Len(Scenario.required_time)
    /\ RunTimeSlice

ScenarioNext == ScenarioAdmit \/ ScenarioRun

SpecScenario == ScenarioInit /\ [][ScenarioNext]_vars

(***************************************************************************)
(* What the properties below speak of.                                     *)
(***************************************************************************)
Pids == 0..(Len(processes) - 1)

PCBOf(pid) == processes[pid + 1]

Resident(pid) == DictGet(mm.allocated_pages, pid, {})

\* sum(len(residentPages[pid]) for all pid)
TotalResident ==
    SumOver(PidUniverse, [p \in PidUniverse |-> Cardinality(Resident(p))])

SumRequired ==
    SumOver(Pids, [p \in Pids |-> PCBOf(p).required_time])

AllTerminated == \A p \in Pids : PCBOf(p).state = "TERMINATED"

NoneReady == \A p \in Pids : PCBOf(p).state # "READY"

SliceRan == last_op.op = "run_time_slice" /\ last_op.status = "ok"

(***************************************************************************)
(* C1  Progress.  With every required_time > 0 and time_quantum >= 1:      *)
(* every successful run_time_slice raises current_time by exactly 1; the   *)
(* number of successful slices never exceeds the sum of the required       *)
(* times; when no process is Ready every PCB is Terminated; and a run that *)
(* keeps calling run_time_slice ends with every PCB Terminated for good.   *)
(***************************************************************************)
C1_Progress ==
    /\ [][ SliceRan'
             => current_time' = current_time + 1 ]_vars
    /\ [](current_time <= SumRequired)
    /\ [](NoneReady => AllTerminated)
    /\ <>[]AllTerminated

\* the bound is attained: a finished run of two or more processes that
\* took exactly sum(required_time) successful slices
C1_Witness ==
    /\ Len(processes) >= 2
    /\ AllTerminated
    /\ current_time = SumRequired
    /\ current_time >= 4

(***************************************************************************)
(* C2  Conservation.  In every reachable state the sum over all pids of    *)
(* the number of resident pages is at most total_memory_pages.             *)
(***************************************************************************)
C2_Conservation == TotalResident <= mm.total_memory_pages

(***************************************************************************)
(* C3  Invariant preservation.  For every PCB, executed_time <=            *)
(* required_time and current_instruction_index <= len(instruction_sequence)*)
(***************************************************************************)
C3_Bounds ==
    \A p \in Pids :
        /\ PCBOf(p).executed_time <= PCBOf(p).required_time
        /\ PCBOf(p).current_instruction_index <= Len(PCBOf(p).instruction_sequence)

\* both bounds are met with equality, by two different processes, the first
\* of them stopped inside a quantum of 2 after one time unit
C3_Witness ==
    /\ time_quantum = 2
    /\ \E p, q \in Pids :
         /\ p # q
         /\ PCBOf(p).required_time = 1
         /\ PCBOf(p).executed_time = 1
         /\ PCBOf(q).current_instruction_index = Len(PCBOf(q).instruction_sequence)
         /\ PCBOf(q).executed_time < PCBOf(q).required_time

(***************************************************************************)
(* C4  Between slices a PCB is Terminated if and only if executed_time =   *)
(* required_time or current_instruction_index = len(instruction_sequence). *)
(***************************************************************************)
C4_TerminatedIff ==
    \A p \in Pids :
        (PCBOf(p).state = "TERMINATED")
          <=> ( \/ PCBOf(p).executed_time = PCBOf(p).required_time
                \/ PCBOf(p).current_instruction_index = Len(PCBOf(p).instruction_sequence) )

\* one process Terminated by running out of instructions before its time
\* quota, another Terminated by its quota with instructions left
C4_Witness ==
    \E p, q \in Pids :
        /\ PCBOf(p).state = "TERMINATED"
        /\ PCBOf(p).current_instruction_index = Len(PCBOf(p).instruction_sequence)
        /\ PCBOf(p).executed_time < PCBOf(p).required_time
        /\ PCBOf(q).state = "TERMINATED"
        /\ PCBOf(q).executed_time = PCBOf(q).required_time
        /\ PCBOf(q).current_instruction_index < Len(PCBOf(q).instruction_sequence)

(***************************************************************************)
(* C5  Per-process frame budget.  The number of pages resident for a       *)
(* process never exceeds the memory_limit given for it at add_process.     *)
(***************************************************************************)
C5_FrameBudget ==
    \A p \in Pids : Cardinality(Resident(p)) <= PCBOf(p).memory_limit

(***************************************************************************)
(* C6  Round-robin order.  A slice runs the first Ready PCB found scanning *)
(* the ring from the pointer and leaves the pointer one position past it;  *)
(* so if P runs at slices i and j and at none between, every other process *)
(* that is admitted before i and not Terminated up to j runs exactly once  *)
(* between i and j, and these run in ring (admission) order after P.       *)
(***************************************************************************)
Selected(k) == execution_log[k].pid

\* q was admitted before the slice logged at position i and no slice up to
\* position j terminated it
LiveThroughout(q, i, j) ==
    /\ PCBOf(q).admitted_at <= i - 1
    /\ \A k \in 1..j : ~(Selected(k) = q /\ execution_log[k].state = "TERMINATED")

\* the distance from P to q along the ring
RingDistance(P, q) == (q - P) % Len(processes)

C6_FirstReady ==
    LET n == Len(processes)
        s == last_op'.pid
        d == (s - current_process_index) % n
    IN /\ processes[s + 1].state = "READY"
       /\ \A t \in 0..(d - 1) : processes[((current_process_index + t) % n) + 1].state # "READY"
       /\ current_process_index' = (s + 1) % n

C6_Between ==
    \A i, j \in 1..Len(execution_log) :
        ( /\ i < j
          /\ Selected(i) = Selected(j)
          /\ \A k \in (i + 1)..(j - 1) : Selected(k) # Selected(i) )
        => /\ \A q \in Pids \ {Selected(i)} :
                LiveThroughout(q, i, j)
                  => Cardinality({ k \in (i + 1)..(j - 1) : Selected(k) = q }) = 1
           /\ \A k1, k2 \in (i + 1)..(j - 1) :
                ( /\ k1 < k2
                  /\ LiveThroughout(Selected(k1), i, j)
                  /\ LiveThroughout(Selected(k2), i, j) )
                => RingDistance(Selected(i), Selected(k1))
                     < RingDistance(Selected(i), Selected(k2))

\* C6: the selection rule and pointer advance of every slice, and the order
\* of the turns between two consecutive turns of one process
C6_RoundRobin ==
    /\ [][ SliceRan' => C6_FirstReady ]_vars
    /\ []C6_Between

\* P0, P1, P2, P0: the two others each ran once, in order, between two
\* turns of P0
C6_Witness ==
    /\ Len(execution_log) >= 4
    /\ Selected(1) = 0 /\ Selected(2) = 1 /\ Selected(3) = 2 /\ Selected(4) = 0
    /\ LiveThroughout(1, 1, 4)
    /\ LiveThroughout(2, 1, 4)

(***************************************************************************)
(* C7  Miss without headroom.  When access_page(pid, page) misses and      *)
(* either the process's resident count is not below its limit or the       *)
(* system-wide resident count is not below total_memory_pages, exactly one *)
(* page is evicted, taken from the process's own resident set, and the new *)
(* page is inserted: the size of that set is unchanged and every other     *)
(* process's resident set is unchanged.                                    *)
(***************************************************************************)
ResidentAfter(pid) == DictGet(mm'.allocated_pages, pid, {})

C7_NoHeadroom(pid, limit) ==
    \/ ~(Cardinality(Resident(pid)) < limit)
    \/ ~(TotalResident < mm.total_memory_pages)

\* C7: a miss without headroom evicts exactly one of the process's own pages
\* and keeps the size of its resident set
C7_MissWithoutHeadroom ==
    [][ ( /\ last_op'.op = "access_page"
          /\ last_op'.page \notin Resident(last_op'.pid)
          /\ C7_NoHeadroom(last_op'.pid, last_op'.limit) )
        => ( /\ Cardinality(last_op'.evicted) = 1
             /\ last_op'.evicted \subseteq Resident(last_op'.pid)
             /\ ResidentAfter(last_op'.pid)
                  = (Resident(last_op'.pid) \ last_op'.evicted) \cup {last_op'.page}
             /\ Cardinality(ResidentAfter(last_op'.pid)) = Cardinality(Resident(last_op'.pid))
             /\ \A q \in PidUniverse \ {last_op'.pid} : ResidentAfter(q) = Resident(q) ) ]_vars

(***************************************************************************)
(* C8  LRU correctness.  The page evicted is a resident page of the        *)
(* accessing process whose last access time is the smallest; after the     *)
(* accesses A, B, C, A the next eviction among {A, B, C} evicts B.         *)
(***************************************************************************)
\* the logical time of the last access of the process to the page before
\* the current call, 0 when it has made none
LastAccessTime(pid, page) ==
    LET h == DictGet(mm.access_history, pid, << >>)
        times == { h[i][2] : i \in { j \in 1..Len(h) : h[j][1] = page } }
    IN IF times = {} THEN 0 ELSE CHOOSE t \in times : \A u \in times : u <= t

\* the process has so far accessed a, b, c, a in that order and nothing else
AccessedABCA(pid, a, b, c) ==
    /\ Cardinality({a, b, c}) = 3
    /\ mm.access_history[pid].has
    /\ LET h == mm.access_history[pid].v
       IN /\ Len(h) = 4
          /\ h[1][1] = a /\ h[2][1] = b /\ h[3][1] = c /\ h[4][1] = a
          /\ h[1][2] < h[2][2] /\ h[2][2] < h[3][2] /\ h[3][2] < h[4][2]
    /\ Resident(pid) = {a, b, c}

\* C8: the evicted page has the smallest last access time among the
\* process's resident pages; after A, B, C, A it is B
C8_LRU ==
    [][ (last_op'.op = "access_page" /\ last_op'.evicted # {})
        => \E v \in Resident(last_op'.pid) :
             /\ last_op'.evicted = {v}
             /\ \A q \in Resident(last_op'.pid) :
                  LastAccessTime(last_op'.pid, v) <= LastAccessTime(last_op'.pid, q)
             /\ \A a, b, c \in MM_Pages :
                  AccessedABCA(last_op'.pid, a, b, c) => v = b ]_vars

\* pages 0, 1, 2, 0 accessed, then page 3 with no headroom: page 1 went
C8_Witness ==
    /\ last_op.op = "access_page"
    /\ last_op.pid = 0
    /\ last_op.page = 3
    /\ last_op.evicted = {1}
    /\ Resident(0) = {0, 2, 3}
    /\ mm.access_history[0].v = << <<0, 1>>, <<1, 2>>, <<2, 3>>, <<0, 4>>, <<3, 5>> >>

(***************************************************************************)
(* C9  Scenario.  Three processes of required_time 4, 2, 3, quantum 1,     *)
(* 5 instructions per time unit, 8 frames, memory_limit 4: the run to      *)
(* completion takes exactly 9 successful slices, every process ends        *)
(* Terminated and no page is resident at the end.                          *)
(***************************************************************************)
ScenarioAdmitted == Len(processes) = Len(Scenario.required_time)

\* C9: the scenario ends after exactly 9 slices, all Terminated, nothing resident
C9_Scenario ==
    /\ current_time <= 9
    /\ Len(execution_log) = current_time
    /\ (ScenarioAdmitted /\ current_time < 9) => SliceEnabled
    /\ (ScenarioAdmitted /\ NoneReady)
         => /\ current_time = 9
            /\ AllTerminated
            /\ TotalResident = 0

C9_Witness ==
    /\ ScenarioAdmitted
    /\ NoneReady
    /\ Len(execution_log) = 9
    /\ \A p \in Pids : PCBOf(p).executed_time = Scenario.required_time[p + 1]

(***************************************************************************)
(* C10  Scenario.  The process with required_time 2 terminates at slice    *)
(* index 2 (the log entry whose time is 2), its second scheduled turn.     *)
(***************************************************************************)
\* the log positions at which the slice terminated pid
TerminatedAt(pid) ==
    { k \in 1..Len(execution_log) :
        Selected(k) = pid /\ execution_log[k].state = "TERMINATED" }

\* the number of turns pid has had up to log position k
TurnsUpTo(pid, k) == Cardinality({ j \in 1..k : Selected(j) = pid })

\* C10: the process with required_time 2 terminates at the log entry of time 2
C10_SliceIndexTwo ==
    \A k \in TerminatedAt(1) :
        /\ execution_log[k].time = 2
        /\ TurnsUpTo(1, k) = 2

(***************************************************************************)
(* C10 as the program has it: the process with required_time 2 terminates  *)
(* at its second scheduled turn, which is the log entry whose time is 4    *)
(* (slices 0..3 went to P0, P1, P2, P0), and it has terminated once five   *)
(* slices have run.                                                        *)
(***************************************************************************)
\* C10, amended: it terminates at the log entry of time 4, its second turn
C10_SliceIndexFour ==
    /\ \A k \in TerminatedAt(1) :
         /\ execution_log[k].time = 4
         /\ k = 5
         /\ TurnsUpTo(1, k) = 2
    /\ (ScenarioAdmitted /\ current_time >= 5) => TerminatedAt(1) # {}

C10_Witness ==
    /\ Len(execution_log) = 5
    /\ Selected(5) = 1
    /\ execution_log[5].state = "TERMINATED"
    /\ execution_log[5].executed_time = 2
    /\ PCBOf(1).state = "TERMINATED"

(***************************************************************************)
(* C11  Zero-capacity edge case.  With a per-process limit of 0 every      *)
(* access_page call returns fault and no page is resident for the process  *)
(* after the call returns.                                                 *)
(***************************************************************************)
C11_ZeroCapacity ==
    [][ (last_op'.op = "access_page" /\ last_op'.limit = 0)
        => (last_op'.fault /\ ResidentAfter(last_op'.pid) = {}) ]_vars

(***************************************************************************)
(* C12  Deallocate at termination.  deallocate_process_pages(pid) is       *)
(* called exactly once per process, in the slice in which the process      *)
(* becomes Terminated; it removes all resident pages and all history of    *)
(* the pid, and from then on the pid never has a page or a history entry.  *)
(***************************************************************************)
\* the pid is a key of neither allocated_pages nor access_history
NoTraceOf(pid) ==
    /\ ~mm.allocated_pages[pid].has
    /\ ~mm.access_history[pid].has
    /\ Resident(pid) = {}
    /\ DictGet(mm.access_history, pid, << >>) = << >>

C12_DeallocateAtTermination ==
    /\ [][ SliceRan'
           => /\ last_op'.deallocated \subseteq {last_op'.pid}
              /\ (last_op'.deallocated = {last_op'.pid})
                   <=> ( /\ PCBOf(last_op'.pid).state # "TERMINATED"
                         /\ processes'[last_op'.pid + 1].state = "TERMINATED" ) ]_vars
    /\ [][ \A p \in Pids : PCBOf(p).state = "TERMINATED"
                             => processes'[p + 1].state = "TERMINATED" ]_vars
    /\ [](\A p \in Pids :
            /\ Cardinality(TerminatedAt(p)) = IF PCBOf(p).state = "TERMINATED" THEN 1 ELSE 0
            /\ PCBOf(p).state = "TERMINATED" => NoTraceOf(p))

\* a process that faulted in its last slice has just been terminated and
\* released while another process still holds pages
C12_Witness ==
    /\ SliceRan
    /\ last_op.deallocated = {last_op.pid}
    /\ execution_log[Len(execution_log)].execution_info.page_faults > 0
    /\ NoTraceOf(last_op.pid)
    /\ TotalResident > 0
    /\ Len(execution_log) > Len(processes)

(***************************************************************************)
(* C13  Hit.  If the page is resident for pid when access_page is called,  *)
(* the call returns no fault, appends exactly one (page, logical time)     *)
(* entry to the history of pid and leaves every resident set unchanged.    *)
(***************************************************************************)
HistoryOf(pid) == DictGet(mm.access_history, pid, << >>)

HistoryAfter(pid) == DictGet(mm'.access_history, pid, << >>)

C13_Hit ==
    [][ (last_op'.op = "access_page" /\ last_op'.page \in Resident(last_op'.pid))
        => /\ ~last_op'.fault
           /\ last_op'.evicted = {}
           /\ mm'.time_counter = mm.time_counter + 1
           /\ HistoryAfter(last_op'.pid)
                = Append(HistoryOf(last_op'.pid), <<last_op'.page, mm'.time_counter>>)
           /\ \A q \in PidUniverse \ {last_op'.pid} : HistoryAfter(q) = HistoryOf(q)
           /\ \A q \in PidUniverse : ResidentAfter(q) = Resident(q) ]_vars

\* a second access to page 0, a hit, while the process also holds page 1
C13_Witness ==
    /\ last_op.op = "access_page"
    /\ last_op.pid = 0
    /\ last_op.page = 0
    /\ ~last_op.fault
    /\ Resident(0) = {0, 1}
    /\ HistoryOf(0) = << <<0, 1>>, <<1, 2>>, <<0, 3>> >>

(***************************************************************************)
(* C14  Miss with headroom.  If the page is not resident for pid, the      *)
(* process's resident count is below the limit and the system-wide         *)
(* resident count is below total_memory_pages, access_page inserts the     *)
(* page without evicting anything (the set grows by exactly one), records  *)
(* the access and returns fault.                                           *)
(***************************************************************************)
C14_MissWithHeadroom ==
    [][ ( /\ last_op'.op = "access_page"
          /\ last_op'.page \notin Resident(last_op'.pid)
          /\ Cardinality(Resident(last_op'.pid)) < last_op'.limit
          /\ TotalResident < mm.total_memory_pages )
        => /\ last_op'.fault
           /\ last_op'.evicted = {}
           /\ ResidentAfter(last_op'.pid) = Resident(last_op'.pid) \cup {last_op'.page}
           /\ Cardinality(ResidentAfter(last_op'.pid)) = Cardinality(Resident(last_op'.pid)) + 1
           /\ \A q \in PidUniverse \ {last_op'.pid} : ResidentAfter(q) = Resident(q)
           /\ HistoryAfter(last_op'.pid)
                = Append(HistoryOf(last_op'.pid), <<last_op'.page, mm'.time_counter>>) ]_vars

\* pid 0 holds pages 0 and 1 of 3 frames and has just faulted page 2 in
C14_Witness ==
    /\ last_op.op = "access_page"
    /\ last_op.pid = 0
    /\ last_op.page = 2
    /\ last_op.limit = 3
    /\ last_op.fault
    /\ last_op.evicted = {}
    /\ Resident(0) = {0, 1, 2}
    /\ TotalResident = 3

(***************************************************************************)
(* C15  AllocateInitial.  The initial allocation add_process asks for      *)
(* fails exactly when granting the pages would take the system-wide        *)
(* resident count past total_memory_pages; on failure the memory manager   *)
(* is unchanged and the process has no resident page; on success the       *)
(* process holds exactly the pages asked for and the system-wide resident  *)
(* count grows by exactly that number.                                     *)
(***************************************************************************)
TotalResidentAfter ==
    SumOver(PidUniverse, [p \in PidUniverse |-> Cardinality(ResidentAfter(p))])

C15_AllocateInitial ==
    [][ last_op'.op = "add_process"
        => LET pid == last_op'.pid
               pageCount == initial_page_request(processes'[pid + 1].memory_limit)
           IN /\ (~last_op'.ok) <=> (TotalResident + pageCount > mm.total_memory_pages)
              /\ (~last_op'.ok) => (mm' = mm /\ ResidentAfter(pid) = {})
              /\ last_op'.ok => /\ Cardinality(ResidentAfter(pid)) = pageCount
                                /\ TotalResidentAfter = TotalResident + pageCount ]_vars

(***************************************************************************)
(* The simulator given values the interface documents as invalid: a        *)
(* MemoryManager of zero or negative size, a zero or negative quantum,     *)
(* processes of zero or negative required_time or memory_limit.            *)
(***************************************************************************)
\* slices stop once current_time reaches this value (a quantum of 0 never
\* finishes a process)
MaxInvalidSlices == 3

InvalidFrames == {-1, 0, 4}
InvalidQuanta == {-1, 0, 1}
InvalidRequiredTimes == {-1, 0, 1}
InvalidMemoryLimits == {-1, 0, 2}

InvalidInit ==
    /\ mm \in { NewMemoryManager(t) : t \in InvalidFrames }
    /\ \E seed \in Seeds : NewScheduler(SmallMachine, seed)
    /\ last_op = NoOp

\* scheduler.time_quantum = ... on the fresh scheduler
InvalidConfigure ==
    /\ last_op = NoOp
    /\ \E q \in InvalidQuanta : time_quantum' = q
    /\ instructions_per_time_unit' = 1
    /\ last_op' = [op |-> "configure"]
    /\ UNCHANGED <<mm, processes, current_process_index, current_time, execution_log,
                   machine, rng, ring_scheduler, simulator>>

InvalidAdmit ==
    /\ Len(processes) < MaxProcs
    /\ \E required_time \in InvalidRequiredTimes, memory_limit \in InvalidMemoryLimits :
         add_process(required_time, memory_limit)

InvalidRun ==
    /\ current_time < MaxInvalidSlices
    /\ RunTimeSlice

InvalidNext == InvalidConfigure \/ InvalidAdmit \/ InvalidRun

SpecInvalid == InvalidInit /\ [][InvalidNext]_vars

(***************************************************************************)
(* C16  InvalidConfiguration.  A non-positive required_time, frame limit,  *)
(* time quantum or per-process limit is rejected and creates no state: no  *)
(* memory manager, scheduler setting or PCB ever carries such a value.     *)
(***************************************************************************)
C16_InvalidConfiguration ==
    /\ mm.total_memory_pages > 0
    /\ time_quantum > 0
    /\ \A p \in Pids : PCBOf(p).required_time > 0 /\ PCBOf(p).memory_limit > 0

(***************************************************************************)
(* C17  PCB state machine.  A PCB only moves Ready -> Running -> Ready or  *)
(* Terminated, within one run_time_slice call: between calls no PCB is     *)
(* Running, a call changes the one PCB it selected, which was Ready, and   *)
(* no other; Terminated is absorbing: a Terminated PCB is never selected   *)
(* again and nothing of it (state, executed_time,                          *)
(* current_instruction_index, page_faults) changes afterwards.             *)
(***************************************************************************)
PCBAfter(pid) == processes'[pid + 1]

C17_StateMachine ==
    /\ [](\A p \in Pids : PCBOf(p).state \in {"READY", "TERMINATED"})
    /\ [][ SliceRan'
           => /\ PCBOf(last_op'.pid).state = "READY"
              /\ \A p \in Pids \ {last_op'.pid} : PCBAfter(p) = PCBOf(p) ]_vars
    /\ [][ \A p \in Pids :
             PCBAfter(p) # PCBOf(p) => (SliceRan' /\ last_op'.pid = p) ]_vars
    /\ [][ \A p \in Pids :
             PCBOf(p).state = "TERMINATED" => PCBAfter(p) = PCBOf(p) ]_vars

\* a process was Terminated, slices went on without it, and a process that
\* has run is Ready again
C17_Witness ==
    /\ \E p \in Pids :
         /\ PCBOf(p).state = "TERMINATED"
         /\ \E k \in TerminatedAt(p) : k + 2 <= Len(execution_log)
    /\ \E q \in Pids : PCBOf(q).state = "READY" /\ PCBOf(q).executed_time > 0

(***************************************************************************)
(* C18  NoReadyProcess.  run_time_slice returns 'no_ready_process' if and  *)
(* only if no PCB is Ready (the empty process list included), and then it  *)
(* changes nothing: no log entry, the same step counter, ring pointer,     *)
(* PCBs and memory manager.                                                *)
(***************************************************************************)
C18_NoReadyProcess ==
    [][ last_op'.op = "run_time_slice"
        => /\ (last_op'.status = "no_ready_process") <=> NoneReady
           /\ (last_op'.status = "no_ready_process")
                => UNCHANGED <<mm, processes, current_process_index, time_quantum,
                               instructions_per_time_unit, current_time, execution_log,
                               machine, rng>> ]_vars

\* every process is Terminated, the pointer is in the middle of the ring and
\* the call has just found nothing to run
C18_Witness ==
    /\ last_op.op = "run_time_slice"
    /\ last_op.status = "no_ready_process"
    /\ Len(processes) = 3
    /\ AllTerminated
    /\ current_process_index = 1
    /\ Len(execution_log) = current_time

(***************************************************************************)
(* C19  Execution log.  Every successful run_time_slice appends exactly    *)
(* one entry to execution_log, no call changes or removes an earlier       *)
(* entry, and an entry's time equals its position in the log counted from  *)
(* 0, so current_time = len(execution_log) in every reachable state.       *)
(***************************************************************************)
C19_ExecutionLog ==
    /\ [][ /\ SliceRan' => Len(execution_log') = Len(execution_log) + 1
           /\ ~SliceRan' => execution_log' = execution_log
           /\ Len(execution_log') >= Len(execution_log)
           /\ SubSeq(execution_log', 1, Len(execution_log)) = execution_log ]_vars
    /\ [](current_time = Len(execution_log))
    /\ [](\A k \in 1..Len(execution_log) : execution_log[k].time = k - 1)

\* four entries, the last two made after a process was admitted mid-run
C19_Witness ==
    /\ Len(execution_log) = 4
    /\ current_time = 4
    /\ execution_log[4].time = 3
    /\ \E p \in Pids : PCBOf(p).admitted_at = 2
    /\ SliceRan

(***************************************************************************)
(* Pages made resident for one process in a known order: pid 0 on three    *)
(* frames is first given initial pages (or none), then accesses pages it   *)
(* has not accessed before, with a limit of three.  last_op.inserted is    *)
(* the pages resident for pid 0, in the order they were made resident.     *)
(***************************************************************************)
FIFO_Pages == 0..4
FIFO_Counts == 0..3

FIFO_Init ==
    /\ mm = NewMemoryManager(3)
    /\ NewScheduler(CodeMachine, [mul |-> 0, add |-> 0])
    /\ last_op = [op |-> "init", inserted |-> << >>, evictions |-> 0]

\* allocate_initial_pages adds start_page, start_page + 1, ... in that order
FIFO_Seed ==
    /\ last_op.op = "init"
    /\ \E n \in FIFO_Counts :
         LET r == allocate_initial_pages(mm, 0, n)
             start_page == Cardinality(get_all_allocated_pages(mm))
         IN /\ mm' = r.mm
            /\ last_op' = [op |-> "allocate_initial_pages", pid |-> 0, count |-> n,
                           ok |-> r.ok,
                           inserted |-> IF r.ok THEN [i \in 1..n |-> start_page + i - 1]
                                        ELSE << >>,
                           evictions |-> 0]
    /\ UNCHANGED sched_vars

\* access_page(0, page, 3) for a page pid 0 has not accessed before
FIFO_Access ==
    /\ last_op.op # "init"
    /\ mm.time_counter < MaxAccesses
    /\ \E page \in FIFO_Pages :
         /\ \A i \in 1..Len(HistoryOf(0)) : HistoryOf(0)[i][1] # page
         /\ \E o \in access_page(mm, 0, page, 3) :
              /\ mm' = o.mm
              /\ last_op' =
                   [op |-> "access_page", pid |-> 0, page |-> page, limit |-> 3,
                    fault |-> o.fault, evicted |-> o.evicted,
                    inserted |->
                      IF o.fault
                      THEN Append(SelectSeq(last_op.inserted, LAMBDA x : x \notin o.evicted),
                                  page)
                      ELSE last_op.inserted,
                    evictions |-> last_op.evictions + Cardinality(o.evicted)]
    /\ UNCHANGED sched_vars

FIFO_Next == FIFO_Seed \/ FIFO_Access

SpecFIFO == FIFO_Init /\ [][FIFO_Next]_vars

(***************************************************************************)
(* C20  FIFO correctness.  Given pages A, B, C made resident for one       *)
(* process in that order, no page accessed more than once, the first       *)
(* eviction under pressure evicts A.                                       *)
(***************************************************************************)
C20_FIFO ==
    [][ ( /\ last_op'.op = "access_page"
          /\ last_op'.evicted # {}
          /\ last_op.evictions = 0
          /\ Len(last_op.inserted) = 3 )
        => last_op'.evicted = {last_op.inserted[1]} ]_vars

(***************************************************************************)
(* The replacement policy as a setting: the caller may assign              *)
(* page_replacement_algorithm on a fresh manager; pid 0 on three frames is *)
(* then given initial pages (or none) and accesses pages, resident or not, *)
(* with a limit of three.  last_op.inserted is the pages resident for      *)
(* pid 0 in the order they were made resident.                             *)
(***************************************************************************)
Policies == {"LRU", "FIFO"}

Policy_Init ==
    /\ mm = NewMemoryManager(3)
    /\ NewScheduler(CodeMachine, [mul |-> 0, add |-> 0])
    /\ last_op = [op |-> "init", inserted |-> << >>, evictions |-> 0]

\* memory_manager.page_replacement_algorithm = ...
Policy_Set ==
    /\ last_op.op = "init"
    /\ \E a \in Policies : mm' = [mm EXCEPT !.page_replacement_algorithm = a]
    /\ last_op' = [op |-> "set_policy", inserted |-> << >>, evictions |-> 0]
    /\ UNCHANGED sched_vars

Policy_Seed ==
    /\ last_op.op = "set_policy"
    /\ \E n \in FIFO_Counts :
         LET r == allocate_initial_pages(mm, 0, n)
             start_page == Cardinality(get_all_allocated_pages(mm))
         IN /\ mm' = r.mm
            /\ last_op' = [op |-> "allocate_initial_pages", pid |-> 0, count |-> n,
                           ok |-> r.ok,
                           inserted |-> IF r.ok THEN [i \in 1..n |-> start_page + i - 1]
                                        ELSE << >>,
                           evictions |-> 0]
    /\ UNCHANGED sched_vars

Policy_Access ==
    /\ last_op.op \notin {"init", "set_policy"}
    /\ mm.time_counter < MaxAccesses
    /\ \E page \in FIFO_Pages : \E o \in access_page(mm, 0, page, 3) :
         /\ mm' = o.mm
         /\ last_op' =
              [op |-> "access_page", pid |-> 0, page |-> page, limit |-> 3,
               fault |-> o.fault, evicted |-> o.evicted,
               inserted |->
                 IF o.fault
                 THEN Append(SelectSeq(last_op.inserted, LAMBDA x : x \notin o.evicted),
                             page)
                 ELSE last_op.inserted,
               evictions |-> last_op.evictions + Cardinality(o.evicted)]
    /\ UNCHANGED sched_vars

Policy_Next == Policy_Set \/ Policy_Seed \/ Policy_Access

SpecPolicy == Policy_Init /\ [][Policy_Next]_vars

(***************************************************************************)
(* C21  Selectable policy, FIFO.  With the policy set to FIFO the victim   *)
(* is the resident page that entered residency earliest; a hit does not    *)
(* change which page goes next.                                            *)
(***************************************************************************)
C21_FIFOPolicy ==
    [][ ( /\ last_op'.op = "access_page"
          /\ last_op'.evicted # {}
          /\ mm.page_replacement_algorithm = "FIFO" )
        => last_op'.evicted = {last_op.inserted[1]} ]_vars

(***************************************************************************)
(* C22  LRU tie-break.  When several resident pages of the process share   *)
(* the smallest last access time, the victim is the one among them that    *)
(* entered residency earliest.                                             *)
(***************************************************************************)
\* the resident pages of pid with the smallest last access time
LeastRecent(pid) ==
    { p \in Resident(pid) :
        \A q \in Resident(pid) : LastAccessTime(pid, p) <= LastAccessTime(pid, q) }

\* the first page of the sequence that is in the set
FirstIn(seq, S) ==
    seq[CHOOSE i \in 1..Len(seq) : seq[i] \in S /\ \A j \in 1..(i - 1) : seq[j] \notin S]

C22_LRUTieBreak ==
    [][ ( /\ last_op'.op = "access_page"
          /\ last_op'.evicted # {}
          /\ mm.page_replacement_algorithm = "LRU" )
        => last_op'.evicted = {FirstIn(last_op.inserted, LeastRecent(0))} ]_vars


(***************************************************************************)
(* The linked-ring schedulers as their programs drive them: a              *)
(* ProcessScheduler creates its five processes with drawn times and runs   *)
(* slices; a StreamlitScheduler is given a list of times (a time of 0      *)
(* makes no process), runs steps, may be reset at any moment and is given  *)
(* new processes when it holds none.                                       *)
(***************************************************************************)
Ring_Init ==
    /\ mm = NewMemoryManager(0)
    /\ processes = << >>
    /\ current_process_index = 0
    /\ time_quantum = 2
    /\ instructions_per_time_unit = 5
    /\ current_time = 0
    /\ execution_log = << >>
    /\ machine = CodeMachine
    /\ \E seed \in ScenarioSeeds : rng = [seed |-> seed, draws |-> 0]
    /\ \E kind \in RingKinds : ring_scheduler = NewRingScheduler(kind)
    /\ simulator = NewSimulator
    /\ last_op = NoOp

ring_unchanged ==
    UNCHANGED <<mm, processes, current_process_index, time_quantum,
                instructions_per_time_unit, current_time, execution_log, machine,
                simulator>>

\* ProcessScheduler.create_processes: random.randint(1, 8) for Q1..Q5
Ring_CreateRandom ==
    /\ ring_scheduler.kind = "ProcessScheduler"
    /\ last_op.op = "init"
    /\ LET times == [i \in 1..RING_PROCS |->
                       randint(1, RING_MAX_TIME, Rand(rng.seed, rng.draws + i - 1))]
       IN /\ ring_scheduler' = create_processes_random(ring_scheduler, times)
          /\ last_op' = [op |-> "create_processes", process_times |-> times]
    /\ rng' = [rng EXCEPT !.draws = @ + RING_PROCS]
    /\ ring_unchanged

Ring_RunProcess ==
    /\ ring_scheduler.kind = "ProcessScheduler"
    /\ LET r == run_process(ring_scheduler)
       IN /\ ring_scheduler' = r.scheduler
          /\ last_op' = [op |-> "run_process", returned |-> r.returned,
                         selected |-> ring_scheduler.current]
    /\ UNCHANGED rng
    /\ ring_unchanged

\* StreamlitScheduler.create_processes replaces all the scheduler holds, so
\* the state it leads to does not depend on the state it is called in: it
\* is called here on a scheduler that holds no process (new, reset or done).
\* A call that found no positive time left the scheduler as it was, so a
\* second call right after it leads where a first call leads.
Ring_Create ==
    /\ ring_scheduler.kind = "StreamlitScheduler"
    /\ ring_scheduler.process_count = 0
    /\ last_op.op # "create_processes"
    /\ \E process_times \in [1..MaxForm -> RingTimes] :
         /\ ring_scheduler' = create_processes(ring_scheduler, process_times)
         /\ last_op' = [op |-> "create_processes", process_times |-> process_times]
    /\ UNCHANGED rng
    /\ ring_unchanged

Ring_RunOneStep ==
    /\ ring_scheduler.kind = "StreamlitScheduler"
    /\ LET r == run_one_step(ring_scheduler)
       IN /\ ring_scheduler' = r.scheduler
          /\ last_op' = [op |-> "run_one_step", returned |-> r.returned,
                         selected |-> ring_scheduler.current]
    /\ UNCHANGED rng
    /\ ring_unchanged

Ring_Reset ==
    /\ ring_scheduler.kind = "StreamlitScheduler"
    /\ ring_scheduler' = ring_reset(ring_scheduler)
    /\ last_op' = [op |-> "reset"]
    /\ UNCHANGED rng
    /\ ring_unchanged

Ring_Next ==
    \/ Ring_CreateRandom
    \/ Ring_RunProcess
    \/ Ring_Create
    \/ Ring_RunOneStep
    \/ Ring_Reset

SpecRing == Ring_Init /\ [][Ring_Next]_vars

\* the PCBs met from node n on by following next, added to seen
RECURSIVE ring_walk(_, _, _)
ring_walk(pcb, n, seen) ==
    IF n = None \/ n \in seen THEN seen
    ELSE ring_walk(pcb, pcb[n].next, seen \cup {n})

\* the PCBs reachable from current by following next
RingMembers(s) == ring_walk(s.pcb, s.current, {})

\* the PCBs with status 'R'
RingReady(s) == { i \in RingNames : s.pcb[i].made /\ s.pcb[i].status = "R" }

\* next maps the set onto itself, one to one
RingClosed(s, M) ==
    /\ \A i \in M : s.pcb[i].next \in M
    /\ \A i, j \in M : s.pcb[i].next = s.pcb[j].next => i = j

(***************************************************************************)
(* C23  Ready ring of the linked-ring schedulers.  In every reachable      *)
(* state the PCBs reachable from current by following next form a single   *)
(* cycle containing exactly the PCBs with status 'R'; a PCB leaves the     *)
(* ring exactly in the step in which its run_time reaches require_time and *)
(* its status becomes 'E', and once out it is never linked in again.       *)
(***************************************************************************)
C23_RingInvariant ==
    /\ RingMembers(ring_scheduler) = RingReady(ring_scheduler)
    /\ RingClosed(ring_scheduler, RingMembers(ring_scheduler))

C23_UnlinkStep ==
    last_op'.op \in {"run_process", "run_one_step"}
    => \A i \in RingNames :
         LET p == ring_scheduler.pcb[i]
             q == ring_scheduler'.pcb[i]
             in_before == i \in RingMembers(ring_scheduler)
             in_after  == i \in RingMembers(ring_scheduler')
         IN /\ (in_before /\ ~in_after)
                 <=> ( /\ p.made /\ p.status = "R" /\ q.status = "E"
                       /\ p.run_time < p.require_time
                       /\ q.run_time >= q.require_time )
            /\ ~in_before => ~in_after

C23_ReadyRing == ([]C23_RingInvariant) /\ [][C23_UnlinkStep]_vars

C23_Witness ==
    /\ last_op.op \in {"run_process", "run_one_step"}
    /\ last_op.returned
    /\ ring_scheduler.pcb[last_op.selected].status = "E"
    /\ last_op.selected \notin RingMembers(ring_scheduler)
    /\ Cardinality(RingMembers(ring_scheduler)) >= 2


(***************************************************************************)
(* C24  Late admission.  A process added by add_process after slices have  *)
(* run is appended after the last admitted process with a pid no earlier   *)
(* process has, Ready; the call leaves the PCBs already admitted and the   *)
(* ring pointer unchanged; and the new process is selected once before any *)
(* process admitted before it is selected twice after the admission.       *)
(***************************************************************************)
\* p was admitted after at least one slice, and q before p
AdmittedLateAfter(p, q) ==
    /\ PCBOf(p).admitted_at >= 1
    /\ q < p

C24_Joins ==
    (last_op'.op = "add_process" /\ current_time >= 1)
    => /\ Len(processes') = Len(processes) + 1
       /\ PCBAfter(Len(processes)).pid = Len(processes)
       /\ PCBAfter(Len(processes)).state = "READY"
       /\ \A q \in Pids : PCBAfter(q) = PCBOf(q) /\ PCBOf(q).pid # Len(processes)
       /\ current_process_index' = current_process_index

\* the log positions after the admission of p and before its first slice
BeforeFirstSlice(p) ==
    { k \in (PCBOf(p).admitted_at + 1)..Len(execution_log) :
        \A j \in (PCBOf(p).admitted_at + 1)..k : Selected(j) # p }

C24_SelectedFirst ==
    \A p \in Pids : \A q \in Pids :
      AdmittedLateAfter(p, q)
      => Cardinality({ k \in BeforeFirstSlice(p) : Selected(k) = q }) <= 1

C24_LateAdmission == ([][C24_Joins]_vars) /\ []C24_SelectedFirst

\* process 1 was admitted after a slice of process 0, which ran again before
\* process 1 had its first slice and again after it
C24_Witness ==
    /\ Len(processes) >= 2
    /\ PCBOf(1).admitted_at >= 1
    /\ \E k1 \in 1..Len(execution_log) : \E k \in 1..Len(execution_log) :
       \E k2 \in 1..Len(execution_log) :
         /\ PCBOf(1).admitted_at < k1 /\ k1 < k /\ k < k2
         /\ Selected(k1) = 0 /\ Selected(k) = 1 /\ Selected(k2) = 0


\* IntegratedScheduler.get_memory_statistics; utilization_rate, a quotient,
\* is kept as its numerator and denominator
get_memory_statistics(m) ==
    LET active_processes == { pid \in DictKeys(m.allocated_pages) : pages_of(m, pid) # {} }
        sum == SumOver(active_processes,
                       [pid \in PidUniverse |-> Cardinality(pages_of(m, pid))])
        total_capacity == m.total_memory_pages
        total_allocated == Min2(sum, total_capacity)
    IN [ total_capacity  |-> total_capacity,
         total_allocated |-> total_allocated,
         utilization_rate |-> IF total_capacity > 0
                              THEN [num |-> total_allocated, den |-> total_capacity]
                              ELSE [num |-> 0, den |-> 1],
         allocated_by_process |-> [pid \in active_processes |-> pages_of(m, pid)],
         free_pages |-> IF total_capacity - total_allocated > 0
                        THEN total_capacity - total_allocated ELSE 0 ]

(***************************************************************************)
(* C25  Memory statistics.  In every reachable state get_memory_statistics *)
(* reports total_allocated equal to the total number of resident pages,    *)
(* the sum of the sizes of all processes' resident sets, and a utilization *)
(* of that total over the frame limit.                                     *)
(***************************************************************************)
C25_MemoryStatistics ==
    LET stats == get_memory_statistics(mm)
    IN /\ stats.total_allocated = TotalResident
       /\ stats.utilization_rate = [num |-> TotalResident, den |-> mm.total_memory_pages]


\* the addresses of the instruction sequence generated for pid
AddressesOf(pid) ==
    { PCBOf(pid).instruction_sequence[k] :
        k \in 1..Len(PCBOf(pid).instruction_sequence) }

(***************************************************************************)
(* C26  Address generator window.  generate_process_instructions(pid, N)   *)
(* returns exactly N addresses, every one inside the window                *)
(* [base, base + N - 1] with base = pid * N, so that the addresses of two  *)
(* distinct pids are disjoint.                                             *)
(***************************************************************************)
C26_AddressWindow ==
    LET N == machine.total_instructions
    IN /\ \A p \in Pids :
            /\ Len(PCBOf(p).instruction_sequence) = N
            /\ AddressesOf(p) \subseteq (p * N)..(p * N + N - 1)
       /\ \A p \in Pids : \A q \in Pids :
            p # q => AddressesOf(p) \cap AddressesOf(q) = {}


\* the entry the last slice appended to the execution log
LastEntry == execution_log[Len(execution_log)]

(***************************************************************************)
(* C27  Slice bound and early stop.  One run_time_slice advances the       *)
(* selected process by at least 1 and at most time_quantum time units and  *)
(* executes at most time_quantum * instructions_per_time_unit              *)
(* instructions, at most instructions_per_time_unit in each unit; it runs  *)
(* no time unit once either termination condition holds, stops before the  *)
(* quantum is used up only when one holds, and executes no instruction     *)
(* beyond the end of the instruction sequence.                             *)
(***************************************************************************)
C27_SliceStep ==
    SliceRan'
    => LET p == PCBOf(last_op'.pid)
           q == PCBAfter(last_op'.pid)
           units == q.executed_time - p.executed_time
           count == q.current_instruction_index - p.current_instruction_index
           info  == execution_log'[Len(execution_log')].execution_info
       IN /\ 1 <= units /\ units <= time_quantum
          /\ 0 <= count /\ count <= time_quantum * instructions_per_time_unit
          /\ count <= units * instructions_per_time_unit
          /\ info.executed_instructions = count
          /\ Len(info.accessed_pages) = count
          /\ q.current_instruction_index <= Len(q.instruction_sequence)
          /\ q.instruction_sequence = p.instruction_sequence
          \* when the last unit began, neither condition held
          /\ p.current_instruction_index + (units - 1) * instructions_per_time_unit
               < Len(p.instruction_sequence)
          /\ p.executed_time + (units - 1) < p.required_time
          \* an early stop is a stop on a termination condition
          /\ units < time_quantum
               => \/ q.current_instruction_index >= Len(q.instruction_sequence)
                  \/ q.executed_time >= q.required_time

C27_SliceBound == [][C27_SliceStep]_vars

\* the first slice of a process stopped after one unit of a quantum of two,
\* its instructions used up in the middle of the unit and its time not
C27_Witness ==
    /\ SliceRan
    /\ time_quantum = 2
    /\ LastEntry.executed_time = 1
    /\ LastEntry.required_time > 1
    /\ TurnsUpTo(LastEntry.pid, Len(execution_log)) = 1
    /\ LastEntry.execution_info.executed_instructions < instructions_per_time_unit
    /\ LastEntry.state = "TERMINATED"


(***************************************************************************)
(* C28  Monotone counters.  Across any sequence of slices each PCB's       *)
(* executed_time, current_instruction_index and page_faults never          *)
(* decrease; the memory manager's time_counter rises by exactly one per    *)
(* access_page call, hit or fault, that is by the number of instructions a *)
(* slice executes and by nothing otherwise; and the (page, time) entries   *)
(* of each process's access history have strictly increasing times.        *)
(***************************************************************************)
C28_CountersStep ==
    /\ \A p \in Pids :
         /\ PCBAfter(p).executed_time >= PCBOf(p).executed_time
         /\ PCBAfter(p).current_instruction_index >= PCBOf(p).current_instruction_index
         /\ PCBAfter(p).page_faults >= PCBOf(p).page_faults
    /\ ~SliceRan' => mm'.time_counter = mm.time_counter
    /\ SliceRan'
         => LET pid   == last_op'.pid
                info  == execution_log'[Len(execution_log')].execution_info
                count == info.executed_instructions
            IN /\ mm'.time_counter = mm.time_counter + count
               /\ PCBAfter(pid).current_instruction_index
                    = PCBOf(pid).current_instruction_index + count
               /\ PCBAfter(pid).page_faults = PCBOf(pid).page_faults + info.page_faults
               \* one history entry per access, each with the next logical time
               /\ PCBAfter(pid).state = "READY"
                    => /\ Len(HistoryAfter(pid)) = Len(HistoryOf(pid)) + count
                       /\ \A i \in 1..count :
                            HistoryAfter(pid)[Len(HistoryOf(pid)) + i]
                              = <<info.accessed_pages[i], mm.time_counter + i>>

C28_HistoryIncreasing ==
    \A pid \in PidUniverse :
      LET h == HistoryOf(pid)
      IN /\ \A i \in 1..Len(h) : 1 <= h[i][2] /\ h[i][2] <= mm.time_counter
         /\ \A i \in 1..(Len(h) - 1) : h[i][2] < h[i + 1][2]

C28_MonotoneCounters == ([][C28_CountersStep]_vars) /\ []C28_HistoryIncreasing

\* a slice of several accesses, hits and faults among them, by a process
\* that has run before and goes on; more accesses so far than slices
C28_Witness ==
    /\ SliceRan
    /\ LastEntry.state = "READY"
    /\ LastEntry.execution_info.page_faults >= 1
    /\ LastEntry.execution_info.page_faults < LastEntry.execution_info.executed_instructions
    /\ Len(HistoryOf(LastEntry.pid)) > LastEntry.execution_info.executed_instructions
    /\ mm.time_counter > current_time


(***************************************************************************)
(* C30  PCB memory state.  In every reachable state the allocated_pages    *)
(* field of each PCB equals the set of pages the memory manager holds      *)
(* resident for that pid.                                                  *)
(***************************************************************************)
C30_PCBMemoryState ==
    \A p \in Pids : PCBOf(p).allocated_pages = Resident(p)


(***************************************************************************)
(* Replay of the address-stream generator: the caller seeds Python's       *)
(* random generator and calls generate_process_instructions; last_op.runs  *)
(* records, for each call, the pid and the length asked for, the seed in    *)
(* force, whether the generator had just been seeded, and the list          *)
(* returned.                                                               *)
(***************************************************************************)
MaxRuns == 3
ReplayPids == {0, 1}
ReplayLengths == {TOTAL_INSTRUCTIONS}

\* a seeding that keeps the position in the old stream
random_seed_keep_position(g, seed) == [seed |-> seed, draws |-> g.draws]

\* random.seed(seed): the stream of the seed, from its start
random_seed(g, seed) == [seed |-> seed, draws |-> 0]

\* a program that has not seeded the generator: Python takes a seed of its own
Replay_Init ==
    /\ mm = NewMemoryManager(0)
    /\ \E seed \in ScenarioSeeds : NewScheduler(CodeMachine, seed)
    /\ last_op = [op |-> "init", runs |-> << >>]

Replay_Seed ==
    /\ \E seed \in ScenarioSeeds : rng' = random_seed(rng, seed)
    /\ last_op' = [op |-> "seed", runs |-> last_op.runs]
    /\ UNCHANGED <<mm, processes, current_process_index, time_quantum,
                   instructions_per_time_unit, current_time, execution_log, machine,
                   ring_scheduler, simulator>>

Replay_Generate ==
    /\ Len(last_op.runs) < MaxRuns
    /\ \E pid \in ReplayPids, n \in ReplayLengths :
         LET gen == generate_process_instructions(pid, n, rng, machine.base_stride)
         IN /\ rng' = gen.rng
            /\ last_op' = [op |-> "generate",
                           runs |-> Append(last_op.runs,
                                           [pid |-> pid, length |-> n, seed |-> rng.seed,
                                            seeded |-> last_op.op = "seed",
                                            instructions |-> gen.instructions])]
    /\ UNCHANGED <<mm, processes, current_process_index, time_quantum,
                   instructions_per_time_unit, current_time, execution_log, machine,
                   ring_scheduler, simulator>>

Replay_Next == Replay_Seed \/ Replay_Generate

SpecReplay == Replay_Init /\ [][Replay_Next]_vars

\* two recorded runs for the same pid and length, each made right after the
\* generator was given the same seed
SameSeededRuns(i, j) ==
    /\ last_op.runs[i].seeded /\ last_op.runs[j].seeded
    /\ last_op.runs[i].seed = last_op.runs[j].seed
    /\ last_op.runs[i].pid = last_op.runs[j].pid
    /\ last_op.runs[i].length = last_op.runs[j].length

completed_names(s, ring_names) ==
    { s.execution_log[k].process_name :
        k \in { j \in 1..Len(s.execution_log) :
                  /\ s.execution_log[j].status = "E"
                  /\ s.execution_log[j].process_name \notin ring_names } }

\* the first log entry that records the completion of the name
completion_entry(s, name) ==
    s.execution_log[CHOOSE k \in 1..Len(s.execution_log) :
                      /\ s.execution_log[k].status = "E"
                      /\ s.execution_log[k].process_name = name
                      /\ \A j \in 1..(k - 1) :
                           ~(s.execution_log[j].status = "E"
                             /\ s.execution_log[j].process_name = name)]

\* all_processes.sort(key=lambda x: x.name) on records of distinct names
RECURSIVE sort_by_name(_)
sort_by_name(S) ==
    IF S = {} THEN << >>
    ELSE LET least == CHOOSE x \in S : \A y \in S : x.name <= y.name
         IN << least >> \o sort_by_name(S \ {least})

\* StreamlitScheduler.get_all_processes (the ProcessScheduler of
\* combined_os_ui.py has the same body): the list returned, each PCB as
\* its name, require_time, run_time and status
get_all_processes(s) ==
    IF s.current = None THEN << >>
    ELSE LET ring_names == ring_walk(s.pcb, s.current, {})
             processes_in_ring ==
               { [name |-> i, require_time |-> s.pcb[i].require_time,
                  run_time |-> s.pcb[i].run_time, status |-> s.pcb[i].status] :
                 i \in ring_names }
             completed_pcbs ==
               { [name |-> n, require_time |-> completion_entry(s, n).require_time,
                  run_time |-> completion_entry(s, n).run_time, status |-> "E"] :
                 n \in completed_names(s, ring_names) }
         IN sort_by_name(processes_in_ring \cup completed_pcbs)

\* the PCBs created by the last create_processes, as get_all_processes shows one
CreatedPCBs(s) ==
    { [name |-> i, require_time |-> s.pcb[i].require_time,
       run_time |-> s.pcb[i].run_time, status |-> s.pcb[i].status] :
      i \in { j \in RingNames : s.pcb[j].made } }

(***************************************************************************)
(* C31  get_all_processes of StreamlitScheduler and of the ProcessScheduler *)
(* of combined_os_ui.py returns, at every point of a run, one PCB for      *)
(* every process that was created, those in the ring and those completed,  *)
(* also after the last process has completed.                              *)
(***************************************************************************)
C31_GetAllProcesses ==
    ring_scheduler.kind = "StreamlitScheduler"
    => LET all_processes == get_all_processes(ring_scheduler)
       IN /\ { all_processes[k] : k \in 1..Len(all_processes) } = CreatedPCBs(ring_scheduler)
          /\ Len(all_processes) = Cardinality(CreatedPCBs(ring_scheduler))


(***************************************************************************)
(* The memory of the IntegratedSimulator: a fresh simulator is configured  *)
(* and pages are accessed, as run_simulation does for each executed        *)
(* instruction.  last_op.trace is the pages accessed so far.               *)
(***************************************************************************)
Sim_Init ==
    /\ mm = NewMemoryManager(0)
    /\ NewScheduler(CodeMachine, [mul |-> 0, add |-> 0])
    /\ last_op = [op |-> "init", trace |-> << >>]

\* configure_system, for its memory_size and algorithm
Sim_Configure ==
    /\ last_op.op = "init"
    /\ \E algorithm \in SimAlgorithms :
         simulator' = [simulator EXCEPT !.memory_size = SimMemorySize,
                                        !.algorithm = algorithm]
    /\ last_op' = [op |-> "configure_system", trace |-> << >>]
    /\ UNCHANGED <<mm, processes, current_process_index, time_quantum,
                   instructions_per_time_unit, current_time, execution_log, machine,
                   rng, ring_scheduler>>

Sim_Access ==
    /\ Len(last_op.trace) < MaxSimAccesses
    /\ \E page \in SimPages :
         LET r == simulate_memory_access(simulator, page)
         IN /\ simulator' = r.simulator
            /\ last_op' = [op |-> "simulate_memory_access", page |-> page,
                           is_fault |-> r.is_fault, removed |-> r.removed,
                           trace |-> Append(last_op.trace, page)]
    /\ UNCHANGED <<mm, processes, current_process_index, time_quantum,
                   instructions_per_time_unit, current_time, execution_log, machine,
                   rng, ring_scheduler>>

Sim_Next == Sim_Configure \/ Sim_Access

SpecSim == Sim_Init /\ [][Sim_Next]_vars

\* the position in the trace of the last access to the page, hit or fault
SimLastUse(page) ==
    LET uses == { k \in 1..Len(last_op.trace) : last_op.trace[k] = page }
    IN IF uses = {} THEN 0 ELSE CHOOSE k \in uses : \A j \in uses : j <= k

SimResident == { simulator.current_memory[k] : k \in 1..Len(simulator.current_memory) }

(***************************************************************************)
(* C32  _simulate_memory_access under algorithm 'LRU'.  When the memory is *)
(* full and a miss occurs, the page removed is the least recently used     *)
(* one: no other resident page was last accessed before it.                *)
(***************************************************************************)
C32_SimulatorLRU ==
    [][ ( /\ last_op'.op = "simulate_memory_access"
          /\ simulator.algorithm = "LRU"
          /\ last_op'.is_fault
          /\ Len(simulator.current_memory) >= simulator.memory_size )
        => \E victim \in SimResident :
             /\ last_op'.removed = {victim}
             /\ \A q \in SimResident \ {victim} : SimLastUse(victim) < SimLastUse(q) ]_vars


(***************************************************************************)
(* C33  Log snapshot on termination.  The log entry of the slice in which  *)
(* a process terminates is written after its pages were released: its      *)
(* memory_pages is empty and its state Terminated.  The entry of a slice   *)
(* that leaves the process Ready carries exactly the pages resident for it *)
(* at the end of that slice.                                               *)
(***************************************************************************)
C33_SnapshotStep ==
    SliceRan'
    => LET pid   == last_op'.pid
           entry == execution_log'[Len(execution_log')]
       IN /\ entry.pid = pid
          /\ entry.state = PCBAfter(pid).state
          /\ entry.state \in {"READY", "TERMINATED"}
          /\ entry.memory_pages = ResidentAfter(pid)
          /\ entry.state = "TERMINATED"
               => /\ entry.memory_pages = {}
                  /\ process_finished(PCBAfter(pid))
          /\ entry.state = "READY" => ~process_finished(PCBAfter(pid))

C33_TerminatedEntriesEmpty ==
    \A k \in 1..Len(execution_log) :
      execution_log[k].state = "TERMINATED" => execution_log[k].memory_pages = {}

C33_LogSnapshot == ([][C33_SnapshotStep]_vars) /\ []C33_TerminatedEntriesEmpty

\* a process was logged Ready with pages resident and later logged Terminated
C33_Witness ==
    \E k1 \in 1..Len(execution_log) : \E k2 \in 1..Len(execution_log) :
      /\ k1 < k2
      /\ execution_log[k1].pid = execution_log[k2].pid
      /\ execution_log[k1].state = "READY"
      /\ execution_log[k1].memory_pages # {}
      /\ execution_log[k2].state = "TERMINATED"
      /\ execution_log[k2].execution_info.executed_instructions >= 1


(***************************************************************************)
(* C34  After access_page(pid, page, limit) returns, hit or fault, with or *)
(* without headroom, for any limit including 0 and for a process with an   *)
(* empty resident set, the accessed page is resident for pid.              *)
(***************************************************************************)
C34_AccessedPageResident ==
    [][ last_op'.op = "access_page"
        => /\ last_op'.page \in ResidentAfter(last_op'.pid)
           /\ last_op'.pid \in DictKeys(mm'.allocated_pages) ]_vars

\* a process that held no page has accessed one with a limit of 0
C34_Witness ==
    /\ last_op.op = "access_page"
    /\ last_op.limit = 0
    /\ last_op.fault
    /\ last_op.evicted = {}
    /\ Resident(last_op.pid) = {last_op.page}


(***************************************************************************)
(* C35  Instruction/time coupling.  With instructions_per_time_unit fixed  *)
(* for the run, every PCB satisfies current_instruction_index =            *)
(* min(len(instruction_sequence), instructions_per_time_unit *             *)
(* executed_time) after every slice, and a slice executes at least one     *)
(* instruction for every time unit it credits.                             *)
(***************************************************************************)
C35_Coupled ==
    \A p \in Pids :
      PCBOf(p).current_instruction_index
        = Min2(Len(PCBOf(p).instruction_sequence),
               instructions_per_time_unit * PCBOf(p).executed_time)

C35_UnitStep ==
    SliceRan'
    => LET p == PCBOf(last_op'.pid)
           q == PCBAfter(last_op'.pid)
           units == q.executed_time - p.executed_time
       IN /\ instructions_per_time_unit' = instructions_per_time_unit
          /\ instructions_per_time_unit >= 1
          /\ q.current_instruction_index - p.current_instruction_index >= units
          \* every unit but the last executed its full count
          /\ q.current_instruction_index - p.current_instruction_index
               > (units - 1) * instructions_per_time_unit

C35_InstructionTimeCoupling == ([]C35_Coupled) /\ [][C35_UnitStep]_vars

\* a process whose last unit ran out of instructions before its count
C35_Witness ==
    /\ SliceRan
    /\ \E p \in Pids :
         /\ PCBOf(p).executed_time >= 1
         /\ PCBOf(p).current_instruction_index = Len(PCBOf(p).instruction_sequence)
         /\ PCBOf(p).current_instruction_index
              < instructions_per_time_unit * PCBOf(p).executed_time


\* the log entries of the slices of pid
EntriesOf(pid) == { k \in 1..Len(execution_log) : execution_log[k].pid = pid }

(***************************************************************************)
(* C36  Access accounting.  In every reachable state the memory manager's  *)
(* time_counter equals the sum of current_instruction_index over all PCBs, *)
(* and for every process that is not Terminated and has executed at least  *)
(* one instruction the length of its access history equals its             *)
(* current_instruction_index.                                              *)
(***************************************************************************)
C36_AccessAccounting ==
    /\ mm.time_counter
         = SumOver(Pids, [p \in Pids |-> PCBOf(p).current_instruction_index])
    /\ \A p \in Pids :
         (PCBOf(p).state # "TERMINATED" /\ PCBOf(p).current_instruction_index >= 1)
         => Len(HistoryOf(p)) = PCBOf(p).current_instruction_index

\* one process has terminated after executing, another has executed and goes on
C36_Witness ==
    /\ \E p \in Pids :
         PCBOf(p).state = "TERMINATED" /\ PCBOf(p).current_instruction_index >= 1
    /\ \E p \in Pids :
         /\ PCBOf(p).state = "READY"
         /\ PCBOf(p).current_instruction_index >= 2
         /\ Len(HistoryOf(p)) = PCBOf(p).current_instruction_index

(***************************************************************************)
(* C37  Fault accounting.  For every process, page_faults equals the sum   *)
(* of execution_info.page_faults over the process's log entries,           *)
(* current_instruction_index equals the sum of executed_instructions over  *)
(* those entries, and page_faults <= current_instruction_index.            *)
(***************************************************************************)
C37_FaultAccounting ==
    \A p \in Pids :
      /\ PCBOf(p).page_faults
           = SumOver(EntriesOf(p),
                     [k \in 1..Len(execution_log) |-> execution_log[k].execution_info.page_faults])
      /\ PCBOf(p).current_instruction_index
           = SumOver(EntriesOf(p),
                     [k \in 1..Len(execution_log) |->
                        execution_log[k].execution_info.executed_instructions])
      /\ PCBOf(p).page_faults <= PCBOf(p).current_instruction_index

\* a process with two slices logged, faults and hits among its accesses
C37_Witness ==
    \E p \in Pids :
      /\ Cardinality(EntriesOf(p)) >= 2
      /\ PCBOf(p).page_faults >= 1
      /\ PCBOf(p).page_faults < PCBOf(p).current_instruction_index


\* a call of run_process or run_one_step that ran a process
RingStepRan == last_op.op \in {"run_process", "run_one_step"} /\ last_op.returned

(***************************************************************************)
(* C38  Linked-ring schedulers, removal step.  When the current process    *)
(* completes while other processes remain, it is unlinked, current becomes *)
(* its former successor, process_count decreases by exactly one and the    *)
(* cyclic order of the remaining processes is unchanged; when it does not  *)
(* complete, current becomes its successor and the ring is unchanged.      *)
(***************************************************************************)
C38_RemovalStep ==
    RingStepRan'
    => LET s == ring_scheduler
           t == ring_scheduler'
           c == s.current
           successor == s.pcb[c].next
           completes == s.pcb[c].run_time + 1 >= s.pcb[c].require_time
           others == RingMembers(s) \ {c}
       IN /\ last_op'.selected = c
          /\ t.pcb[c].run_time = s.pcb[c].run_time + 1
          /\ (completes /\ s.process_count > 1)
               => /\ t.pcb[c].status = "E"
                  /\ RingMembers(t) = others
                  /\ t.current = successor
                  /\ t.process_count = s.process_count - 1
                  /\ \A i \in others :
                       /\ t.pcb[i].next = IF s.pcb[i].next = c THEN successor
                                          ELSE s.pcb[i].next
                       /\ [t.pcb[i] EXCEPT !.next = s.pcb[i].next] = s.pcb[i]
          /\ ~completes
               => /\ t.pcb[c].status = "R"
                  /\ t.current = successor
                  /\ t.process_count = s.process_count
                  /\ RingMembers(t) = RingMembers(s)
                  /\ \A i \in RingMembers(s) : t.pcb[i].next = s.pcb[i].next
                  /\ \A i \in others : t.pcb[i] = s.pcb[i]

C38_LinkedRingRemoval == [][C38_RemovalStep]_vars

\* the second of three processes has just completed: the first is linked to
\* the third, which is current, and the third to the first
C38_Witness ==
    /\ RingStepRan
    /\ last_op.selected = 2
    /\ ring_scheduler.pcb[2].status = "E"
    /\ ring_scheduler.current = 3
    /\ ring_scheduler.process_count = 2
    /\ ring_scheduler.pcb[1].next = 3
    /\ ring_scheduler.pcb[3].next = 1
    /\ ring_scheduler.pcb[1].run_time >= 1


(***************************************************************************)
(* C39  Linked-ring schedulers, counters.  In every reachable state        *)
(* process_count equals the number of PCBs in the ring reachable from      *)
(* current, and current is None if and only if process_count = 0;          *)
(* run_process and run_one_step return False and change nothing exactly in *)
(* that case.                                                              *)
(***************************************************************************)
C39_Counted ==
    /\ ring_scheduler.process_count = Cardinality(RingMembers(ring_scheduler))
    /\ (ring_scheduler.current = None) <=> (ring_scheduler.process_count = 0)

C39_ReturnStep ==
    last_op'.op \in {"run_process", "run_one_step"}
    => /\ (~last_op'.returned) <=> (ring_scheduler.current = None)
       /\ (~last_op'.returned) <=> (ring_scheduler.process_count = 0)
       /\ (~last_op'.returned) <=> (ring_scheduler' = ring_scheduler)

C39_RingCounters == ([]C39_Counted) /\ [][C39_ReturnStep]_vars

\* a call on a scheduler whose processes have all completed returned False
C39_Witness ==
    /\ last_op.op \in {"run_process", "run_one_step"}
    /\ ~last_op.returned
    /\ ring_scheduler.process_count = 0
    /\ \E i \in RingNames : \E j \in RingNames :
         /\ i # j
         /\ ring_scheduler.pcb[i].made /\ ring_scheduler.pcb[i].status = "E"
         /\ ring_scheduler.pcb[j].made /\ ring_scheduler.pcb[j].status = "E"


(***************************************************************************)
(* C40  Linked-ring schedulers, completion.  For any list of positive      *)
(* require_time values, stepping until is_completed takes exactly          *)
(* sum(require_time) successful steps, every process finishes with         *)
(* run_time = require_time (never more), round_count = len(execution_log)  *)
(* after every step, and processes with non-positive require_time are      *)
(* never created by create_processes.                                      *)
(***************************************************************************)
\* the PCBs a creation made
MadePCBs(s) == { i \in RingNames : s.pcb[i].made }

\* is_completed
is_completed(s) == s.process_count = 0

\* the successful steps so far: each one adds 1 to one run_time
total_run_time(s) == SumOver(MadePCBs(s), [i \in RingNames |-> s.pcb[i].run_time])

total_require_time(s) ==
    SumOver(MadePCBs(s), [i \in RingNames |-> s.pcb[i].require_time])

C40_State ==
    LET s == ring_scheduler
    IN /\ \A i \in MadePCBs(s) :
            /\ s.pcb[i].require_time > 0
            /\ s.pcb[i].run_time <= s.pcb[i].require_time
            /\ (s.pcb[i].status = "E") <=> (s.pcb[i].run_time = s.pcb[i].require_time)
       /\ is_completed(s) => \A i \in MadePCBs(s) : s.pcb[i].status = "E"
       /\ is_completed(s) => total_run_time(s) = total_require_time(s)
       /\ s.kind = "StreamlitScheduler"
            => /\ s.round_count = Len(s.execution_log)
               /\ s.round_count = total_run_time(s)

C40_Step ==
    LET s == ring_scheduler
        t == ring_scheduler'
    IN /\ RingStepRan'
            => /\ total_run_time(t) = total_run_time(s) + 1
               /\ total_require_time(t) = total_require_time(s)
               /\ MadePCBs(t) = MadePCBs(s)
       /\ last_op'.op = "create_processes"
            => LET process_times == last_op'.process_times
                   positive == { i \in DOMAIN process_times : process_times[i] > 0 }
               IN IF positive = {}
                  THEN t = s
                  ELSE /\ MadePCBs(t) = positive
                       /\ \A i \in positive :
                            /\ t.pcb[i].require_time = process_times[i]
                            /\ t.pcb[i].run_time = 0
                       /\ t.process_count = Cardinality(positive)
                       /\ t.round_count = 0

C40_RingCompletion == ([]C40_State) /\ [][C40_Step]_vars

\* a list with a 0, a 2 and a 1 was stepped to completion in three steps
C40_Witness ==
    LET s == ring_scheduler
    IN /\ s.kind = "StreamlitScheduler"
       /\ RingStepRan
       /\ is_completed(s)
       /\ MadePCBs(s) = {2, 3}
       /\ s.pcb[2].require_time = 2 /\ s.pcb[2].run_time = 2
       /\ s.pcb[3].require_time = 1 /\ s.pcb[3].run_time = 1
       /\ s.round_count = 3
       /\ Len(s.execution_log) = 3

=============================================================================
